---- MODULE Spec2Model ----
(***************************************************************************)
(* Chat connection core of libsignal's network layer.                       *)
(*                                                                         *)
(* Spec          the connection lifecycle gate (MaybeChatConnection behind *)
(*               a tokio RwLock) driven by concurrent callers of           *)
(*               init_listener / send / disconnect / info.                  *)
(* SpecListener  the listener closure built by into_event_listener, fed by *)
(*               the transport's read loop on a running connection.        *)
(***************************************************************************)
EXTENDS Integers, Sequences, FiniteSets, TLC

\* ------------------------------------------------------------------ bounds
\* Number of caller threads that use one gate concurrently.
NumThreads == 2
\* Number of bridge calls started on the gate, over all callers.
MaxCalls == 4
\* Number of transport events the read loop delivers before it finishes.
MaxEvents == 3

Threads == 1..NumThreads
\* Distinct listener objects a caller can pass to init_listener.
Listeners == {"L1", "L2"}
\* The four operations of the BridgeChatConnection trait.
Ops == {"init_listener", "send", "disconnect", "info"}

VARIABLES
    conn,          \* the MaybeChatConnection inside the RwLock: [tag, listener]
    rwWriter,      \* threads holding the RwLock in write mode (at most one)
    rwReaders,     \* threads holding the RwLock in read mode
    rwQueue,       \* FIFO of <<thread, mode>> waiting for the RwLock
    pendingMutex,  \* threads holding the Mutex<PendingChatConnection> (at most one)
    pc,            \* each caller's position inside its current call
    op,            \* each caller's current (or last) operation
    arg,           \* the listener a caller passed to init_listener
    taken,         \* init_listener: the value std::mem::replace returned
    result,        \* outcome of a caller's call, until it returns or unwinds
    calls,         \* number of calls started on the gate
    duringWrite,   \* the caller's current call began while the write lock was held
    transport,     \* "open" or "closed" (a local disconnect was requested)
    readLoop,      \* "not_started", "running" or "finished"
    attached,      \* listeners handed to ChatConnection::finish_connect, in order
    wire,          \* what was written to the transport, in order: the ids of
                   \* requests, or the response frames of acks
    reqId,         \* the request id a parked send waits for
    received,      \* transport events handed to the listener closure, in order
    callbacks,     \* ChatListener callbacks invoked, in order
    input,         \* the value a conversion is applied to
    output,        \* None, or Some(the conversion's result)
    ackInner,      \* the AtomicTake slot of one ServerMessageAck
    ackResults,    \* what the take() calls on it returned, in order
    responses,     \* response frames handed to parked sends, in order
    decoded,       \* the responses decoded so far, each with its result
    requestHeaders,  \* the HeaderMap of one HttpRequest: its entries, in order
    headersMutex,  \* threads holding the Mutex around it (at most one)
    onDisconnect   \* the registration listener's Option<Sender> and its drops

vars == <<conn, rwWriter, rwReaders, rwQueue, pendingMutex, pc, op, arg, taken,
          result, calls, duringWrite, transport, readLoop, attached, wire, reqId,
          received, callbacks, input, output, ackInner, ackResults, responses,
          decoded, requestHeaders, headersMutex, onDisconnect>>

\* The state of the bridge objects beside the connection.
bridgeVars == <<requestHeaders, headersMutex, onDisconnect>>

\* The variables the connection gate and the event stream leave alone.
auxVars == <<input, output, ackInner, ackResults, responses, decoded, bridgeVars>>

gateVars == <<conn, rwWriter, rwReaders, rwQueue, pendingMutex, pc, op, arg, taken,
              result, calls, duringWrite, attached, wire, reqId>>

\* ------------------------------------------------------- MaybeChatConnection
\* enum MaybeChatConnection { Running(ChatConnection),
\*                            WaitingForListener(Handle, Mutex<Pending>),
\*                            TemporarilyEvicted }
Running(l) == [tag |-> "Running", listener |-> l]
WaitingForListener == [tag |-> "WaitingForListener", listener |-> "none"]
TemporarilyEvicted == [tag |-> "TemporarilyEvicted", listener |-> "none"]

MaybeChatConnection ==
    {Running(l) : l \in Listeners} \cup {WaitingForListener, TemporarilyEvicted}

\* Outcomes of a bridge call.  The panic_* values are the four fatal paths.
Panics == {"panic_listener_already_set", "panic_should_be_a_temporary_state",
           "panic_listener_was_not_set", "panic_unobservable_state"}

\* ---------------------------------------------------------------- strings
\* A header line is a sequence of one-character strings, so that split_once,
\* eq_ignore_ascii_case, trim and parse::<u64> are computed and not assumed.
UpperChars == <<"A","B","C","D","E","F","G","H","I","J","K","L","M",
                "N","O","P","Q","R","S","T","U","V","W","X","Y","Z">>
LowerChars == <<"a","b","c","d","e","f","g","h","i","j","k","l","m",
                "n","o","p","q","r","s","t","u","v","w","x","y","z">>
DigitChars == <<"0","1","2","3","4","5","6","7","8","9">>
Whitespace == {" ", "\t", "\n", "\r"}

\* An Option<T> is the empty sequence (None) or a one-element sequence (Some).
None == <<>>
Some(x) == <<x>>
UnwrapOr(o, default) == IF o = None THEN default ELSE o[1]

ToAsciiLower(c) ==
    IF \E i \in DOMAIN UpperChars : UpperChars[i] = c
    THEN LowerChars[CHOOSE i \in DOMAIN UpperChars : UpperChars[i] = c]
    ELSE c

EqIgnoreAsciiCase(a, b) ==
    /\ Len(a) = Len(b)
    /\ \A i \in DOMAIN a : ToAsciiLower(a[i]) = ToAsciiLower(b[i])

\* str::split_once(':'): None, or Some((before, after)) around the first ':'.
SplitOnce(s, c) ==
    IF \E i \in DOMAIN s : s[i] = c
    THEN LET k == CHOOSE i \in DOMAIN s :
                      s[i] = c /\ \A j \in 1..(i - 1) : s[j] # c
         IN  Some(<<SubSeq(s, 1, k - 1), SubSeq(s, k + 1, Len(s))>>)
    ELSE None

RECURSIVE TrimStart(_)
TrimStart(s) ==
    IF s # <<>> /\ Head(s) \in Whitespace THEN TrimStart(Tail(s)) ELSE s

RECURSIVE TrimEnd(_)
TrimEnd(s) ==
    IF s # <<>> /\ s[Len(s)] \in Whitespace
    THEN TrimEnd(SubSeq(s, 1, Len(s) - 1))
    ELSE s

Trim(s) == TrimEnd(TrimStart(s))

IsDigit(c) == \E i \in DOMAIN DigitChars : DigitChars[i] = c
DigitVal(c) == (CHOOSE i \in DOMAIN DigitChars : DigitChars[i] = c) - 1

RECURSIVE StripZeros(_)
StripZeros(s) ==
    IF Len(s) > 1 /\ Head(s) = "0" THEN StripZeros(Tail(s)) ELSE s

\* u64::MAX = 18446744073709551615, as decimal digits.
U64MaxDigits == <<"1","8","4","4","6","7","4","4","0","7","3","7","0","9",
                  "5","5","1","6","1","5">>

\* a <= b for two digit strings of the same length.
RECURSIVE DigitsLeq(_, _)
DigitsLeq(a, b) ==
    IF a = <<>> THEN TRUE
    ELSE IF DigitVal(Head(a)) < DigitVal(Head(b)) THEN TRUE
    ELSE IF DigitVal(Head(a)) > DigitVal(Head(b)) THEN FALSE
    ELSE DigitsLeq(Tail(a), Tail(b))

FitsU64(digits) ==
    \/ Len(digits) < Len(U64MaxDigits)
    \/ Len(digits) = Len(U64MaxDigits) /\ DigitsLeq(digits, U64MaxDigits)

\* str::parse::<u64>(): an optional leading '+', then one or more decimal
\* digits whose value fits 64 bits.  A u64 is represented by its decimal
\* digits without leading zeros (TLC's integers are too narrow
\* for it); zero is <<"0">>.
ParseU64(s) ==
    LET body == IF s # <<>> /\ Head(s) = "+" THEN Tail(s) ELSE s
    IN  IF body = <<>> THEN None
        ELSE IF \E i \in DOMAIN body : ~IsDigit(body[i]) THEN None
        ELSE IF ~FitsU64(StripZeros(body)) THEN None
        ELSE Some(StripZeros(body))

U64Zero == <<"0">>

\* ------------------------------------------------- server event translator
\* crate::env::TIMESTAMP_HEADER_NAME
TIMESTAMP_HEADER_NAME ==
    <<"x","-","s","i","g","n","a","l","-","t","i","m","e","s","t","a","m","p">>

\* ws::FinishReason / ws::FinishError, the payload of ListenerEvent::Finished.
FinishErrors == {"Protocol"}
FinishReasons ==
    {[ok |-> TRUE, reason |-> "LocalDisconnect"],
     [ok |-> TRUE, reason |-> "RemoteDisconnect"],
     [ok |-> FALSE, reason |-> "Unknown"]}
    \cup {[ok |-> FALSE, reason |-> e] : e \in FinishErrors}

\* DisconnectCause
LocalDisconnectCause ==
    [cause |-> "LocalDisconnect", error |-> [variant |-> "none", detail |-> "none"]]
ErrorCause(e) == [cause |-> "Error", error |-> e]

\* SendError::WebSocket(WebSocketError), named by the variant inside.
WebSocketError(detail) == [variant |-> "WebSocket", detail |-> detail]

\* From<ws error> for SendError: the send error a transport error e is
\* converted into, a different value for each e.
SendErrorFrom(e) == [variant |-> "From", detail |-> e]

\* ws::ListenerEvent
ReceivedAlerts(alerts) == [type |-> "ReceivedAlerts", alerts |-> alerts]
ReceivedMessage(proto, responder) ==
    [type |-> "ReceivedMessage", proto |-> proto, responder |-> responder]
Finished(reason) == [type |-> "Finished", reason |-> reason]

\* Result<ServerEvent, ServerEventError>
Ok(event) == [ok |-> TRUE, event |-> event]
Err(kind, detail) == [ok |-> FALSE, err |-> [kind |-> kind, detail |-> detail]]

\* The value of filter_map's closure for one header line.
TimestampOfHeader(header) ==
    LET split == SplitOnce(header, ":")
    IN  IF split = None THEN None
        ELSE IF EqIgnoreAsciiCase(split[1][1], TIMESTAMP_HEADER_NAME)
             THEN ParseU64(Trim(split[1][2]))
             ELSE None

\* Variant of RawTimestamp: next() in place of next_back(), the first header
\* that parses.
RECURSIVE RawTimestamp_First(_)
RawTimestamp_First(headers) ==
    IF headers = <<>> THEN None
    ELSE LET first == TimestampOfHeader(headers[1])
         IN  IF first # None THEN first
             ELSE RawTimestamp_First(SubSeq(headers, 2, Len(headers)))

\* headers.iter().filter_map(..).next_back()
RECURSIVE RawTimestamp(_)
RawTimestamp(headers) ==
    IF headers = <<>> THEN None
    ELSE LET last == TimestampOfHeader(headers[Len(headers)])
         IN  IF last # None THEN last
             ELSE RawTimestamp(SubSeq(headers, 1, Len(headers) - 1))

\* Variant of convert_received_message: an unknown path falls through to
\* QueueEmpty instead of UnrecognizedPath.
convert_received_message_Lenient(proto, responder) ==
    LET verb == UnwrapOr(proto.verb, "")
        path == UnwrapOr(proto.path, "")
    IN  IF verb # "PUT" THEN Err("UnexpectedVerb", verb)
        ELSE CASE path = "/api/v1/message" ->
                    Ok([kind |-> "IncomingMessage",
                        request_id |-> UnwrapOr(proto.id, 0),
                        envelope |-> UnwrapOr(proto.body, <<>>),
                        server_delivery_timestamp |->
                            UnwrapOr(RawTimestamp(proto.headers), U64Zero),
                        send_ack |-> [responder |-> responder]])
               [] path = "" -> Err("MissingPath", "")
               [] OTHER -> Ok([kind |-> "QueueEmpty"])

\* make_send_ack(): the closure that sends a response through the responder.
MakeSendAck(responder) == [responder |-> responder]

\* Variant of convert_received_message: make_send_ack() is called before the
\* path is matched, and the sender travels with QueueEmpty as well.
convert_received_message_AckFirst(proto, responder) ==
    LET verb == UnwrapOr(proto.verb, "")
        path == UnwrapOr(proto.path, "")
    IN  IF verb # "PUT" THEN Err("UnexpectedVerb", verb)
        ELSE CASE path = "/api/v1/queue/empty" ->
                    Ok([kind |-> "QueueEmpty", send_ack |-> MakeSendAck(responder)])
               [] path = "/api/v1/message" ->
                    Ok([kind |-> "IncomingMessage",
                        request_id |-> UnwrapOr(proto.id, 0),
                        envelope |-> UnwrapOr(proto.body, <<>>),
                        server_delivery_timestamp |-> U64Zero,
                        send_ack |-> MakeSendAck(responder)])
               [] path = "" -> Err("MissingPath", "")
               [] OTHER -> Err("UnrecognizedPath", path)

\* Variant of convert_received_message: the path is matched before the verb is
\* looked at.
convert_received_message_PathFirst(proto, responder) ==
    LET verb == UnwrapOr(proto.verb, "")
        path == UnwrapOr(proto.path, "")
    IN  CASE path = "/api/v1/queue/empty" ->
                Ok([kind |-> "QueueEmpty"])
          [] path = "/api/v1/message" ->
                Ok([kind |-> "IncomingMessage",
                    request_id |-> UnwrapOr(proto.id, 0),
                    envelope |-> UnwrapOr(proto.body, <<>>),
                    server_delivery_timestamp |->
                        UnwrapOr(RawTimestamp(proto.headers), U64Zero),
                    send_ack |-> MakeSendAck(responder)])
          [] verb # "PUT" -> Err("UnexpectedVerb", verb)
          [] path = "" -> Err("MissingPath", "")
          [] OTHER -> Err("UnrecognizedPath", path)

\* Variant of convert_received_message: without the "" arm, so that an empty
\* or absent path is reported as an unrecognized one.
convert_received_message_NoMissingPath(proto, responder) ==
    LET verb == UnwrapOr(proto.verb, "")
        path == UnwrapOr(proto.path, "")
    IN  IF verb # "PUT" THEN Err("UnexpectedVerb", verb)
        ELSE CASE path = "/api/v1/queue/empty" ->
                    Ok([kind |-> "QueueEmpty"])
               [] path = "/api/v1/message" ->
                    Ok([kind |-> "IncomingMessage",
                        request_id |-> UnwrapOr(proto.id, 0),
                        envelope |-> UnwrapOr(proto.body, <<>>),
                        server_delivery_timestamp |->
                            UnwrapOr(RawTimestamp(proto.headers), U64Zero),
                        send_ack |-> MakeSendAck(responder)])
               [] OTHER -> Err("UnrecognizedPath", path)

\* Variant of convert_received_message: a message frame without a body is
\* refused instead of being delivered with an empty envelope.
convert_received_message_RequiresBody(proto, responder) ==
    LET verb == UnwrapOr(proto.verb, "")
        path == UnwrapOr(proto.path, "")
    IN  IF verb # "PUT" THEN Err("UnexpectedVerb", verb)
        ELSE CASE path = "/api/v1/queue/empty" ->
                    Ok([kind |-> "QueueEmpty"])
               [] path = "/api/v1/message" /\ proto.body = None ->
                    Err("MissingBody", "")
               [] path = "/api/v1/message" /\ proto.body # None ->
                    Ok([kind |-> "IncomingMessage",
                        request_id |-> UnwrapOr(proto.id, 0),
                        envelope |-> proto.body[1],
                        server_delivery_timestamp |->
                            UnwrapOr(RawTimestamp(proto.headers), U64Zero),
                        send_ack |-> MakeSendAck(responder)])
               [] path = "" -> Err("MissingPath", "")
               [] OTHER -> Err("UnrecognizedPath", path)

convert_received_message(proto, responder) ==
    LET verb == UnwrapOr(proto.verb, "")
        path == UnwrapOr(proto.path, "")
    IN  IF verb # "PUT" THEN Err("UnexpectedVerb", verb)
        ELSE CASE path = "/api/v1/queue/empty" ->
                    Ok([kind |-> "QueueEmpty"])
               [] path = "/api/v1/message" ->
                    Ok([kind |-> "IncomingMessage",
                        request_id |-> UnwrapOr(proto.id, 0),
                        envelope |-> UnwrapOr(proto.body, <<>>),
                        server_delivery_timestamp |->
                            UnwrapOr(RawTimestamp(proto.headers), U64Zero),
                        send_ack |-> MakeSendAck(responder)])
               [] path = "" -> Err("MissingPath", "")
               [] OTHER -> Err("UnrecognizedPath", path)

\* Variant of DisconnectCauseOf: every Ok finish reason is a local disconnect.
DisconnectCauseOf_OkIsLocal(reason) ==
    IF reason.ok
    THEN LocalDisconnectCause
    ELSE IF reason.reason = "Unknown"
         THEN ErrorCause(WebSocketError("Other(unexpected exit)"))
         ELSE ErrorCause(SendErrorFrom(reason.reason))

\* Variant of DisconnectCauseOf: a local disconnect is reported like a remote
\* one, as a closed channel.
DisconnectCauseOf_LocalAsClosed(reason) ==
    IF reason.ok
    THEN ErrorCause(WebSocketError("ChannelClosed"))
    ELSE IF reason.reason = "Unknown"
         THEN ErrorCause(WebSocketError("Other(unexpected exit)"))
         ELSE ErrorCause(SendErrorFrom(reason.reason))

\* The Finished arm of try_from.
DisconnectCauseOf(reason) ==
    IF reason.ok
    THEN IF reason.reason = "LocalDisconnect"
         THEN LocalDisconnectCause
         ELSE ErrorCause(WebSocketError("ChannelClosed"))
    ELSE IF reason.reason = "Unknown"
         THEN ErrorCause(WebSocketError("Other(unexpected exit)"))
         ELSE ErrorCause(SendErrorFrom(reason.reason))

\* impl TryFrom<ws::ListenerEvent> for ServerEvent
TryFromListenerEvent(value) ==
    CASE value.type = "ReceivedAlerts" ->
            Ok([kind |-> "Alerts", alerts |-> value.alerts])
      [] value.type = "ReceivedMessage" ->
            convert_received_message(value.proto, value.responder)
      [] value.type = "Finished" ->
            Ok([kind |-> "Stopped", cause |-> DisconnectCauseOf(value.reason)])

\* ------------------------------------------------------------ ChatListener
\* One invocation of a ChatListener method on listener l.
Callback(l, method, payload) ==
    [listener |-> l, method |-> method, payload |-> payload]

\* ServerMessageAck::new
ServerMessageAckNew(send_ack) == [inner |-> Some(send_ack)]

\* Variant of received_server_request: the QueueEmpty arm calls the alerts
\* callback.
received_server_request_Swapped(l, request) ==
    CASE request.kind = "IncomingMessage" ->
            Callback(l, "received_incoming_message",
                     [envelope |-> request.envelope,
                      timestamp |-> request.server_delivery_timestamp,
                      ack |-> ServerMessageAckNew(request.send_ack)])
      [] request.kind = "QueueEmpty" ->
            Callback(l, "received_alerts", [alerts |-> <<>>])
      [] request.kind = "Alerts" ->
            Callback(l, "received_alerts", [alerts |-> request.alerts])
      [] request.kind = "Stopped" ->
            Callback(l, "connection_interrupted", [cause |-> request.cause])

\* dyn ChatListener::received_server_request: the callback it makes.
received_server_request(l, request) ==
    CASE request.kind = "IncomingMessage" ->
            Callback(l, "received_incoming_message",
                     [envelope |-> request.envelope,
                      timestamp |-> request.server_delivery_timestamp,
                      ack |-> ServerMessageAckNew(request.send_ack)])
      [] request.kind = "QueueEmpty" ->
            Callback(l, "received_queue_empty", [none |-> TRUE])
      [] request.kind = "Alerts" ->
            Callback(l, "received_alerts", [alerts |-> request.alerts])
      [] request.kind = "Stopped" ->
            Callback(l, "connection_interrupted", [cause |-> request.cause])

\* Variant of into_event_listener: a translation error is reported to the
\* listener as an interruption instead of being logged and dropped.
into_event_listener_ErrorStops(l, event) ==
    LET translated == TryFromListenerEvent(event)
    IN  IF translated.ok
        THEN <<received_server_request(l, translated.event)>>
        ELSE <<Callback(l, "connection_interrupted",
                        [cause |-> ErrorCause(WebSocketError(translated.err.kind))])>>

\* The closure into_event_listener returns, applied to one event: the
\* callbacks it makes on l (none when the translation fails).
into_event_listener(l, event) ==
    LET translated == TryFromListenerEvent(event)
    IN  IF translated.ok
        THEN <<received_server_request(l, translated.event)>>
        ELSE <<>>

\* ------------------------------------------------------ transport (chat::ws)
\* ChatConnection::disconnect and PendingChatConnection::disconnect: a graceful
\* close of the transport; closing a transport that is closed or whose read
\* loop has ended changes nothing.
TransportAfterDisconnect ==
    IF readLoop = "finished" THEN transport ELSE "closed"

\* The reason the read loop can end with: LocalDisconnect exactly when a local
\* disconnect was requested before it ended.
CanFinishWith(reason) ==
    IF transport = "closed"
    THEN reason = [ok |-> TRUE, reason |-> "LocalDisconnect"]
    ELSE reason # [ok |-> TRUE, reason |-> "LocalDisconnect"]

\* The read loop hands one event to the closure it was given by finish_connect.
Deliver(event) ==
    /\ received' = Append(received, event)
    /\ callbacks' = callbacks \o into_event_listener(attached[Len(attached)], event)

\* The read loop ends: it reports Finished once and stops.
ReadLoopFinish(reason) ==
    /\ readLoop = "running"
    /\ CanFinishWith(reason)
    /\ Deliver(Finished(reason))
    /\ readLoop' = "finished"
    /\ UNCHANGED <<gateVars, transport>>
    /\ UNCHANGED auxVars

\* --------------------------------------------------------------- the RwLock
\* Variant of LockMode: init_listener takes the lock in read mode.
LockModeAlwaysRead(o) == "r"

\* blocking_write() for init_listener, read() / blocking_read() for the rest.
LockMode(o) == IF o = "init_listener" THEN "w" ELSE "r"

WriterAhead == rwWriter # {} \/ \E i \in DOMAIN rwQueue : rwQueue[i][2] = "w"

\* A caller starts a bridge call and queues for the lock.
Call(t, o, l) ==
    /\ pc[t] = "idle"
    /\ calls < MaxCalls
    /\ (o = "init_listener") = (l \in Listeners)
    /\ op' = [op EXCEPT ![t] = o]
    /\ arg' = [arg EXCEPT ![t] = l]
    /\ calls' = calls + 1
    /\ duringWrite' = [duringWrite EXCEPT ![t] = WriterAhead]
    /\ rwQueue' = Append(rwQueue, <<t, LockMode(o)>>)
    /\ pc' = [pc EXCEPT ![t] = "wait_lock"]
    /\ UNCHANGED <<conn, rwWriter, rwReaders, pendingMutex, taken, result,
                   transport, readLoop, attached, wire, reqId, received, callbacks>>
    /\ UNCHANGED auxVars

\* Variant of CanGrant: a reader waits for the readers before it, too.
CanGrantExclusive(mode) == rwWriter = {} /\ rwReaders = {}

\* tokio::sync::RwLock is fair: waiters are served in arrival order, a writer
\* alone, readers together.
CanGrant(mode) ==
    IF mode = "w" THEN rwWriter = {} /\ rwReaders = {} ELSE rwWriter = {}

Grant(t) ==
    /\ rwQueue # <<>>
    /\ Head(rwQueue)[1] = t
    /\ pc[t] = "wait_lock"
    /\ CanGrant(Head(rwQueue)[2])
    /\ rwQueue' = Tail(rwQueue)
    /\ rwWriter' = IF Head(rwQueue)[2] = "w" THEN {t} ELSE rwWriter
    /\ rwReaders' = IF Head(rwQueue)[2] = "r" THEN rwReaders \cup {t} ELSE rwReaders
    /\ pc' = [pc EXCEPT ![t] = "locked"]
    /\ UNCHANGED <<conn, pendingMutex, op, arg, taken, result, calls, duringWrite,
                   transport, readLoop, attached, wire, reqId, received, callbacks>>
    /\ UNCHANGED auxVars

\* The guard is dropped: at the end of the call, or while a panic unwinds.
Release(t) ==
    /\ pc[t] \in {"unlock", "unwinding"}
    /\ rwWriter' = rwWriter \ {t}
    /\ rwReaders' = rwReaders \ {t}
    /\ pc' = [pc EXCEPT ![t] = "idle"]
    /\ op' = [op EXCEPT ![t] = "none"]
    /\ arg' = [arg EXCEPT ![t] = "none"]
    /\ result' = [result EXCEPT ![t] = "none"]
    /\ duringWrite' = [duringWrite EXCEPT ![t] = FALSE]
    /\ UNCHANGED <<conn, rwQueue, pendingMutex, taken, calls, transport, readLoop,
                   attached, wire, reqId, received, callbacks>>
    /\ UNCHANGED auxVars

\* ------------------------------------------------------------ init_listener
lockVars == <<rwWriter, rwReaders, rwQueue>>
callVars == <<op, arg, calls, duringWrite>>
streamVars == <<transport, readLoop, received, callbacks>>

\* Variant of InitMatch: a gate that is already Running is promoted again.
InitMatchNoCheck(t) ==
    /\ pc[t] = "replaced"
    /\ pc' = [pc EXCEPT ![t] = "finish_connect"]
    /\ taken' = [taken EXCEPT ![t] = WaitingForListener]
    /\ UNCHANGED <<conn, lockVars, callVars, streamVars, pendingMutex, result,
                   attached, wire, reqId>>
    /\ UNCHANGED auxVars

\* Variant of InitMatch: the Running connection is not put back before the
\* panic.
InitMatchNoRestore(t) ==
    /\ pc[t] = "replaced"
    /\ CASE taken[t].tag = "Running" ->
              /\ result' = [result EXCEPT ![t] = "panic_listener_already_set"]
              /\ pc' = [pc EXCEPT ![t] = "unwinding"]
         [] taken[t].tag = "WaitingForListener" ->
              /\ result' = result
              /\ pc' = [pc EXCEPT ![t] = "finish_connect"]
         [] taken[t].tag = "TemporarilyEvicted" ->
              /\ result' = [result EXCEPT ![t] = "panic_should_be_a_temporary_state"]
              /\ pc' = [pc EXCEPT ![t] = "unwinding"]
    /\ taken' = [taken EXCEPT ![t] = WaitingForListener]
    /\ UNCHANGED <<conn, lockVars, callVars, streamVars, pendingMutex, attached,
                   wire, reqId>>
    /\ UNCHANGED auxVars

\* Variant of InitFinish: the connection is built but never stored in the gate.
InitFinishNoInstall(t) ==
    /\ pc[t] = "finish_connect"
    /\ attached' = Append(attached, arg[t])
    /\ readLoop' = "running"
    /\ result' = [result EXCEPT ![t] = "ok"]
    /\ pc' = [pc EXCEPT ![t] = "unlock"]
    /\ UNCHANGED <<conn, lockVars, callVars, pendingMutex, taken, wire, reqId,
                   transport, received, callbacks>>
    /\ UNCHANGED auxVars

\* std::mem::replace(connection, MaybeChatConnection::TemporarilyEvicted)
InitReplace(t) ==
    /\ pc[t] = "locked"
    /\ op[t] = "init_listener"
    /\ taken' = [taken EXCEPT ![t] = conn]
    /\ conn' = TemporarilyEvicted
    /\ pc' = [pc EXCEPT ![t] = "replaced"]
    /\ UNCHANGED <<lockVars, callVars, streamVars, pendingMutex, result, attached,
                   wire, reqId>>
    /\ UNCHANGED auxVars

\* The match on the replaced value.
InitMatch(t) ==
    /\ pc[t] = "replaced"
    /\ CASE taken[t].tag = "Running" ->
              /\ conn' = taken[t]
              /\ result' = [result EXCEPT ![t] = "panic_listener_already_set"]
              /\ pc' = [pc EXCEPT ![t] = "unwinding"]
         [] taken[t].tag = "WaitingForListener" ->
              /\ conn' = conn
              /\ result' = result
              /\ pc' = [pc EXCEPT ![t] = "finish_connect"]
         [] taken[t].tag = "TemporarilyEvicted" ->
              /\ conn' = conn
              /\ result' = [result EXCEPT ![t] = "panic_should_be_a_temporary_state"]
              /\ pc' = [pc EXCEPT ![t] = "unwinding"]
    /\ taken' = [taken EXCEPT ![t] = WaitingForListener]
    /\ UNCHANGED <<lockVars, callVars, streamVars, pendingMutex, attached, wire,
                   reqId>>
    /\ UNCHANGED auxVars

\* *connection = Running(ChatConnection::finish_connect(runtime,
\*     pending.into_inner(), listener.into_event_listener()))
\* finish_connect starts the read loop with the listener's closure.
InitFinish(t) ==
    /\ pc[t] = "finish_connect"
    /\ conn' = Running(arg[t])
    /\ attached' = Append(attached, arg[t])
    /\ readLoop' = "running"
    /\ result' = [result EXCEPT ![t] = "ok"]
    /\ pc' = [pc EXCEPT ![t] = "unlock"]
    /\ UNCHANGED <<lockVars, callVars, pendingMutex, taken, wire, reqId, transport,
                   received, callbacks>>
    /\ UNCHANGED auxVars

\* --------------------------------------------------------------------- send
\* initial_request_id: 0, then one more for each request written.
NextRequestId == Len(wire)

\* Variant of Send: the request is written without looking at the variant.
SendNoCheck(t) ==
    /\ pc[t] = "locked"
    /\ op[t] = "send"
    /\ wire' = Append(wire, NextRequestId)
    /\ reqId' = [reqId EXCEPT ![t] = Some(NextRequestId)]
    /\ pc' = [pc EXCEPT ![t] = "parked"]
    /\ UNCHANGED <<conn, lockVars, callVars, streamVars, pendingMutex, taken,
                   result, attached>>
    /\ UNCHANGED auxVars

\* let MaybeChatConnection::Running(inner) = &*guard else { panic!(..) };
\* inner.send(message, timeout): the request is written and the caller parks,
\* unless the connection has already ended.
Send(t) ==
    /\ pc[t] = "locked"
    /\ op[t] = "send"
    /\ IF conn.tag = "Running"
       THEN IF readLoop = "finished"
            THEN /\ result' = [result EXCEPT ![t] = "terminated"]
                 /\ pc' = [pc EXCEPT ![t] = "unlock"]
                 /\ UNCHANGED <<wire, reqId>>
            ELSE /\ wire' = Append(wire, NextRequestId)
                 /\ reqId' = [reqId EXCEPT ![t] = Some(NextRequestId)]
                 /\ pc' = [pc EXCEPT ![t] = "parked"]
                 /\ result' = result
       ELSE /\ result' = [result EXCEPT ![t] = "panic_listener_was_not_set"]
            /\ pc' = [pc EXCEPT ![t] = "unwinding"]
            /\ UNCHANGED <<wire, reqId>>
    /\ UNCHANGED <<conn, lockVars, callVars, streamVars, pendingMutex, taken,
                   attached>>
    /\ UNCHANGED auxVars

\* A parked send resolves: its response arrived while the read loop ran, the
\* timeout elapsed, or the connection ended.
CanResolve(outcome) ==
    CASE outcome = "response" -> readLoop = "running"
      [] outcome = "timeout" -> TRUE
      [] outcome = "terminated" -> readLoop = "finished"

SendResolve(t, outcome) ==
    /\ pc[t] = "parked"
    /\ CanResolve(outcome)
    /\ result' = [result EXCEPT ![t] = outcome]
    /\ reqId' = [reqId EXCEPT ![t] = None]
    /\ pc' = [pc EXCEPT ![t] = "unlock"]
    /\ UNCHANGED <<conn, lockVars, callVars, streamVars, pendingMutex, taken,
                   attached, wire>>
    /\ UNCHANGED auxVars

\* --------------------------------------------------------- disconnect, info
\* Variant of Disconnect: like send, it insists on a Running connection.
DisconnectRequiresListener(t) ==
    /\ pc[t] = "locked"
    /\ op[t] = "disconnect"
    /\ IF conn.tag = "Running"
       THEN /\ transport' = TransportAfterDisconnect
            /\ result' = [result EXCEPT ![t] = "ok"]
            /\ pc' = [pc EXCEPT ![t] = "unlock"]
       ELSE /\ transport' = transport
            /\ result' = [result EXCEPT ![t] = "panic_listener_was_not_set"]
            /\ pc' = [pc EXCEPT ![t] = "unwinding"]
    /\ UNCHANGED <<conn, lockVars, callVars, pendingMutex, taken, attached, wire,
                   reqId, readLoop, received, callbacks>>
    /\ UNCHANGED auxVars

\* The match on &*guard in disconnect.
Disconnect(t) ==
    /\ pc[t] = "locked"
    /\ op[t] = "disconnect"
    /\ CASE conn.tag = "Running" ->
              /\ transport' = TransportAfterDisconnect
              /\ result' = [result EXCEPT ![t] = "ok"]
              /\ pc' = [pc EXCEPT ![t] = "unlock"]
         [] conn.tag = "WaitingForListener" ->
              /\ transport' = transport
              /\ result' = result
              /\ pc' = [pc EXCEPT ![t] = "wait_mutex"]
         [] conn.tag = "TemporarilyEvicted" ->
              /\ transport' = transport
              /\ result' = [result EXCEPT ![t] = "panic_unobservable_state"]
              /\ pc' = [pc EXCEPT ![t] = "unwinding"]
    /\ UNCHANGED <<conn, lockVars, callVars, pendingMutex, taken, attached, wire,
                   reqId, readLoop, received, callbacks>>
    /\ UNCHANGED auxVars

\* The match on &*guard in info.
Info(t) ==
    /\ pc[t] = "locked"
    /\ op[t] = "info"
    /\ CASE conn.tag = "Running" ->
              /\ result' = [result EXCEPT ![t] = "info"]
              /\ pc' = [pc EXCEPT ![t] = "unlock"]
         [] conn.tag = "WaitingForListener" ->
              /\ result' = result
              /\ pc' = [pc EXCEPT ![t] = "wait_mutex"]
         [] conn.tag = "TemporarilyEvicted" ->
              /\ result' = [result EXCEPT ![t] = "panic_unobservable_state"]
              /\ pc' = [pc EXCEPT ![t] = "unwinding"]
    /\ UNCHANGED <<conn, lockVars, callVars, streamVars, pendingMutex, taken,
                   attached, wire, reqId>>
    /\ UNCHANGED auxVars

\* pending_chat_mutex.lock().await / pending_chat_connection.blocking_lock()
LockPending(t) ==
    /\ pc[t] = "wait_mutex"
    /\ pendingMutex = {}
    /\ pendingMutex' = {t}
    /\ pc' = [pc EXCEPT ![t] = "pending_locked"]
    /\ UNCHANGED <<conn, lockVars, callVars, streamVars, taken, result, attached,
                   wire, reqId>>
    /\ UNCHANGED auxVars

\* Variant of PendingOp: the mutex guard outlives the call.
PendingOpKeepsGuard(t) ==
    /\ pc[t] = "pending_locked"
    /\ transport' = IF op[t] = "disconnect" THEN TransportAfterDisconnect
                    ELSE transport
    /\ result' = [result EXCEPT ![t] = IF op[t] = "disconnect" THEN "ok" ELSE "info"]
    /\ pc' = [pc EXCEPT ![t] = "unlock"]
    /\ UNCHANGED <<conn, lockVars, callVars, pendingMutex, taken, attached, wire,
                   reqId, readLoop, received, callbacks>>
    /\ UNCHANGED auxVars

\* Variant of PendingOp: disconnecting takes the pending connection out of the
\* gate.
PendingOpConsumes(t) ==
    /\ pc[t] = "pending_locked"
    /\ transport' = IF op[t] = "disconnect" THEN TransportAfterDisconnect
                    ELSE transport
    /\ conn' = IF op[t] = "disconnect" THEN TemporarilyEvicted ELSE conn
    /\ result' = [result EXCEPT ![t] = IF op[t] = "disconnect" THEN "ok" ELSE "info"]
    /\ pendingMutex' = {}
    /\ pc' = [pc EXCEPT ![t] = "unlock"]
    /\ UNCHANGED <<lockVars, callVars, taken, attached, wire, reqId,
                   readLoop, received, callbacks>>
    /\ UNCHANGED auxVars

\* PendingChatConnection::disconnect().await or ::connection_info(), after
\* which the mutex guard is dropped.
PendingOp(t) ==
    /\ pc[t] = "pending_locked"
    /\ transport' = IF op[t] = "disconnect" THEN TransportAfterDisconnect
                    ELSE transport
    /\ result' = [result EXCEPT ![t] = IF op[t] = "disconnect" THEN "ok" ELSE "info"]
    /\ pendingMutex' = {}
    /\ pc' = [pc EXCEPT ![t] = "unlock"]
    /\ UNCHANGED <<conn, lockVars, callVars, taken, attached, wire, reqId,
                   readLoop, received, callbacks>>
    /\ UNCHANGED auxVars

\* ------------------------------------------------------------ specification
\* HttpRequest::new: headers: Default::default(), behind an unlocked mutex;
\* connect_registration_chat: on_disconnect = Some(drop_on_disconnect).
BridgeInit ==
    /\ requestHeaders = <<>>
    /\ headersMutex = {}
    /\ onDisconnect = [slot |-> <<"drop_on_disconnect">>, drops |-> 0]

\* Nothing is being converted, and no ack handle exists yet.
AuxInit ==
    /\ input = <<>>
    /\ output = <<>>
    /\ ackInner = <<>>
    /\ ackResults = <<>>
    /\ responses = <<>>
    /\ decoded = <<>>
    /\ BridgeInit

\* UnauthenticatedChatConnection::connect / AuthenticatedChatConnection::connect:
\* the gate starts as WaitingForListener over an established transport.
Init ==
    /\ conn = WaitingForListener
    /\ rwWriter = {}
    /\ rwReaders = {}
    /\ rwQueue = <<>>
    /\ pendingMutex = {}
    /\ pc = [t \in Threads |-> "idle"]
    /\ op = [t \in Threads |-> "none"]
    /\ arg = [t \in Threads |-> "none"]
    /\ taken = [t \in Threads |-> WaitingForListener]
    /\ result = [t \in Threads |-> "none"]
    /\ calls = 0
    /\ duringWrite = [t \in Threads |-> FALSE]
    /\ transport = "open"
    /\ readLoop = "not_started"
    /\ attached = <<>>
    /\ wire = <<>>
    /\ reqId = [t \in Threads |-> None]
    /\ received = <<>>
    /\ callbacks = <<>>
    /\ AuxInit

Next ==
    \/ \E t \in Threads, o \in Ops, l \in Listeners \cup {"none"} : Call(t, o, l)
    \/ \E t \in Threads : Grant(t)
    \/ \E t \in Threads : Release(t)
    \/ \E t \in Threads : InitReplace(t)
    \/ \E t \in Threads : InitMatch(t)
    \/ \E t \in Threads : InitFinish(t)
    \/ \E t \in Threads : Send(t)
    \/ \E t \in Threads, outcome \in {"response", "timeout", "terminated"} :
          SendResolve(t, outcome)
    \/ \E t \in Threads : Disconnect(t)
    \/ \E t \in Threads : Info(t)
    \/ \E t \in Threads : LockPending(t)
    \/ \E t \in Threads : PendingOp(t)
    \/ \E reason \in FinishReasons : ReadLoopFinish(reason)

Spec == Init /\ [][Next]_vars

\* ------------------------------------------------- the listener's event stream
\* proto::chat_websocket::WebSocketRequestMessage
Frame(verb, path, headers, body, id) ==
    [verb |-> verb, path |-> path, headers |-> headers, body |-> body, id |-> id]

\* "x-signal-timestamp: 1234"
TimestampHeader1234 ==
    TIMESTAMP_HEADER_NAME \o <<":", " ", "1", "2", "3", "4">>

\* Frames the server sends in the event-stream specification: one or two for
\* each row of the routing table.
ListenerFrames ==
    {Frame(Some("PUT"), Some("/api/v1/message"), <<TimestampHeader1234>>,
           Some(<<1, 2, 3>>), Some(42)),
     Frame(Some("PUT"), Some("/api/v1/message"), <<>>, None, None),
     Frame(Some("PUT"), Some("/api/v1/queue/empty"), <<>>, None, Some(7)),
     Frame(Some("PUT"), None, <<>>, None, Some(8)),
     Frame(Some("PUT"), Some("/api/v1/other"), <<>>, Some(<<9>>), Some(9)),
     Frame(Some("GET"), Some("/api/v1/message"), <<>>, Some(<<4>>), Some(10)),
     Frame(None, Some("/api/v1/queue/empty"), <<>>, None, None)}

AlertLists == {<<>>, <<"alert">>}

\* FakeChatConnection::new + into_unauthenticated / into_authenticated: the
\* gate starts Running, its listener's closure already given to the read loop.
InitListener ==
    /\ conn = Running("L1")
    /\ rwWriter = {}
    /\ rwReaders = {}
    /\ rwQueue = <<>>
    /\ pendingMutex = {}
    /\ pc = [t \in Threads |-> "idle"]
    /\ op = [t \in Threads |-> "none"]
    /\ arg = [t \in Threads |-> "none"]
    /\ taken = [t \in Threads |-> WaitingForListener]
    /\ result = [t \in Threads |-> "none"]
    /\ calls = 0
    /\ duringWrite = [t \in Threads |-> FALSE]
    /\ transport = "open"
    /\ readLoop = "running"
    /\ attached = <<"L1">>
    /\ wire = <<>>
    /\ reqId = [t \in Threads |-> None]
    /\ received = <<>>
    /\ callbacks = <<>>
    /\ AuxInit

\* The read loop receives a server request frame.
ReceiveMessage(proto) ==
    /\ readLoop = "running"
    /\ Len(received) < MaxEvents
    /\ Deliver(ReceivedMessage(proto, proto.id))
    /\ UNCHANGED <<gateVars, transport, readLoop>>
    /\ UNCHANGED auxVars

\* The read loop reports the alerts of the connection.
ReceiveAlerts(alerts) ==
    /\ readLoop = "running"
    /\ Len(received) < MaxEvents
    /\ Deliver(ReceivedAlerts(alerts))
    /\ UNCHANGED <<gateVars, transport, readLoop>>
    /\ UNCHANGED auxVars

\* ChatConnection::disconnect on the running connection.
LocalDisconnect ==
    /\ readLoop = "running"
    /\ transport = "open"
    /\ transport' = TransportAfterDisconnect
    /\ UNCHANGED <<gateVars, readLoop, received, callbacks>>
    /\ UNCHANGED auxVars

NextListener ==
    \/ \E proto \in ListenerFrames : ReceiveMessage(proto)
    \/ \E alerts \in AlertLists : ReceiveAlerts(alerts)
    \/ LocalDisconnect
    \/ \E reason \in FinishReasons : ReadLoopFinish(reason)

SpecListener == InitListener /\ [][NextListener]_vars

\* ================================================================== claims
ReaderOps == {"send", "disconnect", "info"}

\* C1: at most one listener is ever attached to a gate: finish_connect is
\* given a listener at most once, and a Running gate holds exactly that one.
C1_AtMostOneListener ==
    /\ Len(attached) <= 1
    /\ conn.tag = "Running" => attached = <<conn.listener>>

\* A second init_listener, offering another listener, found the gate Running.
C1_Witness ==
    \E t \in Threads :
        /\ pc[t] = "unwinding"
        /\ result[t] = "panic_listener_already_set"
        /\ arg[t] # conn.listener
        /\ attached = <<conn.listener>>

\* C2: no send, disconnect or info ever observes TemporarilyEvicted: while a
\* caller holds the lock in read mode the gate is not evicted, and no call
\* ends in the "unobservable state" panic.
C2_EvictedUnobservable ==
    /\ rwReaders # {} => conn.tag # "TemporarilyEvicted"
    /\ \A t \in Threads : result[t] # "panic_unobservable_state"

\* The gate is evicted, by a second init_listener, while a reader call that
\* started during it waits for the lock.
C2_Witness ==
    /\ conn.tag = "TemporarilyEvicted"
    /\ attached # <<>>
    /\ \E t \in Threads :
          pc[t] = "wait_lock" /\ op[t] \in ReaderOps /\ duringWrite[t]

C4_BlockedUntilPromoted ==
    /\ rwWriter # {} => rwReaders = {}
    /\ \A t \in Threads :
          (duringWrite[t] /\ t \in rwReaders) =>
              /\ conn.tag = "Running"
              /\ result[t] \notin Panics
    /\ \A t \in Threads : op[t] = "disconnect" => result[t] \notin Panics

\* A send that started during the promotion has written its request.
C4_Witness ==
    \E t \in Threads :
        /\ duringWrite[t]
        /\ op[t] = "send"
        /\ pc[t] = "parked"
        /\ calls = 2

\* C5: init_listener on a Running gate panics with "listener already set",
\* and at the panic the gate holds the Running connection with the listener
\* attached first; only a gate without a listener reaches finish_connect.
C5_SecondAttachFatal ==
    \A t \in Threads :
        /\ result[t] = "panic_listener_already_set" =>
              /\ pc[t] = "unwinding"
              /\ Len(attached) = 1
              /\ conn = Running(attached[1])
        /\ pc[t] = "finish_connect" => attached = <<>>
        /\ (op[t] = "init_listener" /\ result[t] = "ok") => attached = <<arg[t]>>

\* A second init_listener is unwinding from its panic.
C5_Witness ==
    \E t \in Threads :
        /\ result[t] = "panic_listener_already_set"
        /\ pc[t] = "unwinding"
        /\ t \in rwWriter

\* C6: a send that finds the gate WaitingForListener panics with "listener
\* was not set"; the step writes nothing and leaves the gate as it was.
C6_SendBeforeListenerFatal ==
    [][\A t \in Threads :
          (/\ pc[t] = "locked"
           /\ op[t] = "send"
           /\ conn.tag = "WaitingForListener"
           /\ pc'[t] # "locked") =>
              /\ pc'[t] = "unwinding"
              /\ result'[t] = "panic_listener_was_not_set"
              /\ wire' = wire
              /\ reqId' = reqId
              /\ conn' = conn
              /\ transport' = transport]_vars

\* A send panicked on a gate that is still WaitingForListener.
C6_Witness ==
    \E t \in Threads :
        /\ result[t] = "panic_listener_was_not_set"
        /\ op[t] = "send"
        /\ conn.tag = "WaitingForListener"
        /\ wire = <<>>

\* C7: disconnect never reaches a fatal path, in either phase, and leaves the
\* gate and the listener's stream alone; on a transport that is already closed
\* or has ended it changes nothing.
C7_DisconnectSafeIdempotent ==
    [][\A t \in Threads :
          (/\ op[t] = "disconnect"
           /\ pc[t] \in {"locked", "pending_locked"}
           /\ pc'[t] # pc[t]) =>
              /\ result'[t] \notin Panics
              /\ pc'[t] \in {"unlock", "wait_mutex"}
              /\ conn' = conn
              /\ received' = received
              /\ callbacks' = callbacks
              /\ wire' = wire
              /\ (transport = "closed" \/ readLoop = "finished") =>
                     transport' = transport]_vars

\* Two disconnect calls have completed, one of them after the close.
C7_Witness ==
    \E t, u \in Threads :
        /\ t # u
        /\ op[t] = "disconnect" /\ pc[t] = "unlock" /\ result[t] = "ok"
        /\ op[u] = "disconnect" /\ pc[u] = "unlock" /\ result[u] = "ok"
        /\ transport = "closed"

\* The routing the listener is documented to follow, stated on the wire
\* event: the callback an event must cause (method and what it carries), or
\* None for a frame that does not translate.
ExpectedCallback(ev) ==
    CASE ev.type = "ReceivedAlerts" -> Some(<<"received_alerts", ev.alerts>>)
      [] ev.type = "Finished" -> Some(<<"connection_interrupted", <<>>>>)
      [] ev.type = "ReceivedMessage" ->
            IF ev.proto.verb # Some("PUT") THEN None
            ELSE IF ev.proto.path = Some("/api/v1/message")
                 THEN Some(<<"received_incoming_message",
                             UnwrapOr(ev.proto.body, <<>>)>>)
            ELSE IF ev.proto.path = Some("/api/v1/queue/empty")
                 THEN Some(<<"received_queue_empty", <<>>>>)
            ELSE None

RECURSIVE ExpectedCallbacks(_)
ExpectedCallbacks(events) ==
    IF events = <<>> THEN <<>>
    ELSE ExpectedCallbacks(SubSeq(events, 1, Len(events) - 1))
             \o ExpectedCallback(events[Len(events)])

\* What a recorded callback was: its method and what it carried.
CallbackKey(cb) ==
    <<cb.method,
      CASE cb.method = "received_incoming_message" -> cb.payload.envelope
        [] cb.method = "received_alerts" -> cb.payload.alerts
        [] OTHER -> <<>> >>

Untranslatable(ev) == ExpectedCallback(ev) = None

C9_CallbacksInWireOrder ==
    /\ [i \in DOMAIN callbacks |-> CallbackKey(callbacks[i])]
           = ExpectedCallbacks(received)
    /\ \A i \in DOMAIN callbacks : callbacks[i].listener = attached[1]

\* Two incoming messages with different envelopes, a queue-empty frame
\* between them, were delivered.
C9_Witness ==
    /\ Len(callbacks) = 3
    /\ callbacks[1].method = "received_incoming_message"
    /\ callbacks[2].method = "received_queue_empty"
    /\ callbacks[3].method = "received_incoming_message"
    /\ callbacks[1].payload.envelope # callbacks[3].payload.envelope

\* C10: a frame whose translation fails causes no callback and does not end
\* the stream, and a frame that translates causes its callback whatever was
\* dropped before it.
C10_BadFrameDropped ==
    [][Len(received') > Len(received) =>
          IF Untranslatable(received'[Len(received')])
          THEN /\ callbacks' = callbacks
               /\ readLoop' = "running"
               /\ transport' = transport
          ELSE /\ Len(callbacks') = Len(callbacks) + 1
               /\ CallbackKey(callbacks'[Len(callbacks')])
                      = ExpectedCallback(received'[Len(received')])[1]]_vars

\* Two frames with different translation errors were dropped, then a message
\* was delivered.
C10_Witness ==
    /\ Len(received) >= 3
    /\ Untranslatable(received[1])
    /\ Untranslatable(received[2])
    /\ received[1].proto.verb # received[2].proto.verb
    /\ ~Untranslatable(received[3])
    /\ received[3].type = "ReceivedMessage"
    /\ Len(callbacks) = 1

\* ============================================================ ServerMessageAck
\* The most take() calls made on one handle.
MaxTakes == 4

\* The senders a handle can be built around, named by the request they answer.
AckResponders == {0, 7, 42}

\* What a caller that is not inside a gate operation leaves alone.
callerVars == <<conn, rwWriter, rwReaders, rwQueue, pendingMutex, op, arg, taken,
                result, calls, duringWrite, attached, wire, reqId>>

\* The gate and the event stream of a Running connection on which nothing has
\* happened yet.
RunningGate ==
    /\ conn = Running("L1")
    /\ rwWriter = {}
    /\ rwReaders = {}
    /\ rwQueue = <<>>
    /\ pendingMutex = {}
    /\ pc = [t \in Threads |-> "idle"]
    /\ op = [t \in Threads |-> "none"]
    /\ arg = [t \in Threads |-> "none"]
    /\ taken = [t \in Threads |-> WaitingForListener]
    /\ result = [t \in Threads |-> "none"]
    /\ calls = 0
    /\ duringWrite = [t \in Threads |-> FALSE]
    /\ transport = "open"
    /\ readLoop = "running"
    /\ attached = <<"L1">>
    /\ wire = <<>>
    /\ reqId = [t \in Threads |-> None]
    /\ received = <<>>
    /\ callbacks = <<>>

\* ServerMessageAck::new around one sender; input remembers the sender.
InitAck ==
    /\ RunningGate
    /\ input \in {MakeSendAck(r) : r \in AckResponders}
    /\ ackInner = ServerMessageAckNew(input).inner
    /\ output = <<>>
    /\ ackResults = <<>>
    /\ responses = <<>>
    /\ decoded = <<>>
    /\ BridgeInit

\* A thread that holds the handle calls take().
TakeCall(t) ==
    /\ pc[t] = "idle"
    /\ Len(ackResults) + Cardinality({u \in Threads : pc[u] = "taking"}) < MaxTakes
    /\ pc' = [pc EXCEPT ![t] = "taking"]
    /\ UNCHANGED <<callerVars, streamVars, auxVars>>

\* Variant of AckTake: take() returns what the slot holds and leaves it there.
AckTakePeek(t) ==
    /\ pc[t] = "taking"
    /\ ackResults' = Append(ackResults, [thread |-> t, value |-> ackInner])
    /\ pc' = [pc EXCEPT ![t] = "idle"]
    /\ UNCHANGED <<callerVars, streamVars, input, output, ackInner, responses, decoded,
                   bridgeVars>>

\* ServerMessageAck::take: AtomicTake::take empties the slot and returns what
\* it held, in one atomic step.
AckTake(t) ==
    /\ pc[t] = "taking"
    /\ ackResults' = Append(ackResults, [thread |-> t, value |-> ackInner])
    /\ ackInner' = None
    /\ pc' = [pc EXCEPT ![t] = "idle"]
    /\ UNCHANGED <<callerVars, streamVars, input, output, responses, decoded,
                   bridgeVars>>

NextAck ==
    \/ \E t \in Threads : TakeCall(t)
    \/ \E t \in Threads : AckTake(t)

SpecAck == InitAck /\ [][NextAck]_vars

\* C11: of the take() calls made on one ServerMessageAck, in whatever order
\* concurrent callers reach it, the first and only the first returns the
\* sender the handle was built around; every other returns None, so the sender
\* is handed out at most once.
C11_TakeOnce ==
    /\ \A i \in DOMAIN ackResults :
           ackResults[i].value = (IF i = 1 THEN Some(input) ELSE None)
    /\ Cardinality({i \in DOMAIN ackResults : ackResults[i].value # None}) <= 1
    /\ ackInner = (IF ackResults = <<>> THEN Some(input) ELSE None)

\* Two callers took in turn, the first got the sender, the other and a third
\* call got None, and one more call is inside take().
C11_Witness ==
    /\ Len(ackResults) >= 3
    /\ ackResults[1].thread # ackResults[2].thread
    /\ ackResults[1].value = Some(input)
    /\ ackResults[2].value = None
    /\ ackResults[3].value = None
    /\ \E t \in Threads : pc[t] = "taking"

\* ================================================== translation of one event
\* The most header lines of a frame.
MaxHeaders == 2

\* "name:value"
HeaderLine(name, value) == name \o <<":">> \o value

\* The timestamp header's name as a server may spell it.
TimestampNameMixedCase ==
    <<"X","-","S","i","g","n","a","l","-","T","i","m","e","s","t","a","m","p">>

\* Header lines of a frame: timestamp headers whose value parses (1234, 5,
\* +7), ones whose value does not (soon, empty, too large), and lines that are not
\* timestamp headers (another name, a name followed by a space, no colon).
HeaderLines ==
    {HeaderLine(TIMESTAMP_HEADER_NAME, <<" ","1","2","3","4">>),
     HeaderLine(TimestampNameMixedCase, <<"5">>),
     HeaderLine(TIMESTAMP_HEADER_NAME, <<"+","7"," ">>),
     HeaderLine(TIMESTAMP_HEADER_NAME, <<"s","o","o","n">>),
     HeaderLine(TIMESTAMP_HEADER_NAME, <<>>),
     HeaderLine(TIMESTAMP_HEADER_NAME, U64MaxDigits) \o <<"0">>,
     HeaderLine(<<"h","o","s","t">>, <<"9">>),
     TIMESTAMP_HEADER_NAME \o <<" ",":","8">>,
     TIMESTAMP_HEADER_NAME}

RECURSIVE SeqsUpTo(_, _)
SeqsUpTo(S, n) ==
    IF n = 0 THEN {<<>>}
    ELSE LET shorter == SeqsUpTo(S, n - 1)
         IN  shorter \cup {Append(s, x) : s \in shorter, x \in S}

\* Every frame a server can send, over small sets of verbs, paths, header
\* lists, bodies and ids; the responder of a frame is named by the frame's id.
TranslateFrames ==
    {Frame(verb, path, headers, body, id) :
        verb \in {None, Some("PUT"), Some("GET"), Some("put")},
        path \in {None, Some(""), Some("/api/v1/queue/empty"),
                  Some("/api/v1/message"), Some("/api/v1/message/"),
                  Some("/API/V1/MESSAGE")},
        headers \in SeqsUpTo(HeaderLines, MaxHeaders),
        body \in {None, Some(<<>>), Some(<<1, 2, 3>>)},
        id \in {None, Some(0), Some(42)}}

\* Every event the read loop can report.
TranslateEvents ==
    {ReceivedMessage(proto, proto.id) : proto \in TranslateFrames}
    \cup {ReceivedAlerts(alerts) : alerts \in AlertLists}
    \cup {Finished(reason) :
            reason \in FinishReasons \cup {[ok |-> FALSE, reason |-> "Io"]}}

\* One event is about to be translated.
InitTranslate ==
    /\ RunningGate
    /\ input \in TranslateEvents
    /\ output = None
    /\ ackInner = <<>>
    /\ ackResults = <<>>
    /\ responses = <<>>
    /\ decoded = <<>>
    /\ BridgeInit

\* ServerEvent::try_from(input)
Translate ==
    /\ output = None
    /\ output' = Some(TryFromListenerEvent(input))
    /\ UNCHANGED <<gateVars, streamVars, input, ackInner, ackResults, responses,
                   decoded,
                   bridgeVars>>

NextTranslate == Translate

SpecTranslate == InitTranslate /\ [][NextTranslate]_vars

\* The frame of the event that was translated.
TranslatedFrame == input.proto

\* A server request frame has been translated.
MessageTranslated == output # None /\ input.type = "ReceivedMessage"

\* C12: a frame whose verb is not exactly PUT, an absent verb included,
\* translates to the error UnexpectedVerb carrying that verb (the empty string
\* for an absent one), whatever its path, headers, body and id.
C12_NonPutIsUnexpectedVerb ==
    (MessageTranslated /\ TranslatedFrame.verb # Some("PUT")) =>
        /\ ~output[1].ok
        /\ output[1].err.kind = "UnexpectedVerb"
        /\ output[1].err.detail =
               (IF TranslatedFrame.verb = None THEN "" ELSE TranslatedFrame.verb[1])

\* A GET of the queue-empty path, which a path-first routing would accept, was
\* refused for its verb.
C12_Witness ==
    /\ MessageTranslated
    /\ TranslatedFrame.verb = Some("GET")
    /\ TranslatedFrame.path = Some("/api/v1/queue/empty")
    /\ output[1] = Err("UnexpectedVerb", "GET")

\* C13: a PUT frame is routed by its exact path, and every path has a row:
\* /api/v1/queue/empty gives QueueEmpty, /api/v1/message gives IncomingMessage,
\* an empty or absent path gives MissingPath, any other path gives
\* UnrecognizedPath carrying that path.
C13_PutRoutedByExactPath ==
    (MessageTranslated /\ TranslatedFrame.verb = Some("PUT")) =>
        LET path == TranslatedFrame.path
        IN  CASE path = Some("/api/v1/queue/empty") ->
                    output[1].ok /\ output[1].event.kind = "QueueEmpty"
              [] path = Some("/api/v1/message") ->
                    output[1].ok /\ output[1].event.kind = "IncomingMessage"
              [] path \in {None, Some("")} ->
                    ~output[1].ok /\ output[1].err.kind = "MissingPath"
              [] OTHER ->
                    /\ ~output[1].ok
                    /\ output[1].err = [kind |-> "UnrecognizedPath",
                                        detail |-> path[1]]

\* A PUT of the message path with a trailing slash was refused as
\* unrecognized, carrying the path.
C13_Witness ==
    /\ MessageTranslated
    /\ TranslatedFrame.verb = Some("PUT")
    /\ TranslatedFrame.path = Some("/api/v1/message/")
    /\ output[1] = Err("UnrecognizedPath", "/api/v1/message/")

\* A message frame has been translated into an IncomingMessage.
IncomingTranslated ==
    /\ MessageTranslated
    /\ output[1].ok
    /\ output[1].event.kind = "IncomingMessage"

\* The header's name, what precedes its first colon, is the timestamp header's
\* name in any letter case.
IsTimestampHeader(header) ==
    \E k \in DOMAIN header :
        /\ header[k] = ":"
        /\ \A j \in 1 .. k - 1 : header[j] # ":"
        /\ EqIgnoreAsciiCase(SubSeq(header, 1, k - 1), TIMESTAMP_HEADER_NAME)

\* What follows the header's first colon, trimmed and parsed as a u64.
HeaderValueAsU64(header) ==
    LET k == CHOOSE k \in DOMAIN header :
                 header[k] = ":" /\ \A j \in 1 .. k - 1 : header[j] # ":"
    IN  ParseU64(Trim(SubSeq(header, k + 1, Len(header))))

\* The greatest element of a non-empty set of indices.
LastOf(indices) == CHOOSE i \in indices : \A j \in indices : j <= i

C15_MessageAlwaysDelivered ==
    (/\ MessageTranslated
     /\ TranslatedFrame.verb = Some("PUT")
     /\ TranslatedFrame.path = Some("/api/v1/message")) =>
        /\ IncomingTranslated
        /\ output[1].event.envelope =
               (IF TranslatedFrame.body = None THEN <<>> ELSE TranslatedFrame.body[1])
        /\ output[1].event.request_id =
               (IF TranslatedFrame.id = None THEN 0 ELSE TranslatedFrame.id[1])
        /\ (\A i \in DOMAIN TranslatedFrame.headers :
                ~IsTimestampHeader(TranslatedFrame.headers[i])) =>
               output[1].event.server_delivery_timestamp = U64Zero

\* A message frame with no body, no id and only a header of another name was
\* delivered with an empty envelope, request_id 0 and timestamp 0.
C15_Witness ==
    /\ IncomingTranslated
    /\ TranslatedFrame.body = None
    /\ TranslatedFrame.id = None
    /\ TranslatedFrame.headers = <<HeaderLine(<<"h","o","s","t">>, <<"9">>)>>
    /\ output[1].event.envelope = <<>>
    /\ output[1].event.request_id = 0
    /\ output[1].event.server_delivery_timestamp = U64Zero

\* A Finished event has been translated.
FinishedTranslated == output # None /\ input.type = "Finished"

\* C16: a Finished event always translates, to Stopped with the one cause of
\* its finish reason: LocalDisconnect for a local disconnect, a closed channel
\* for a remote one, "unexpected exit" for an unknown exit, and the converted
\* error for any other error. Only a local disconnect gives LocalDisconnect.
C16_FinishedMapsToCause ==
    FinishedTranslated =>
        LET reason == input.reason
            cause == output[1].event.cause
        IN  /\ output[1].ok
            /\ output[1].event.kind = "Stopped"
            /\ cause =
                 (CASE reason = [ok |-> TRUE, reason |-> "LocalDisconnect"] ->
                          [cause |-> "LocalDisconnect",
                           error |-> [variant |-> "none", detail |-> "none"]]
                    [] reason = [ok |-> TRUE, reason |-> "RemoteDisconnect"] ->
                          [cause |-> "Error",
                           error |-> [variant |-> "WebSocket",
                                      detail |-> "ChannelClosed"]]
                    [] reason = [ok |-> FALSE, reason |-> "Unknown"] ->
                          [cause |-> "Error",
                           error |-> [variant |-> "WebSocket",
                                      detail |-> "Other(unexpected exit)"]]
                    [] OTHER ->
                          [cause |-> "Error", error |-> SendErrorFrom(reason.reason)])
            /\ cause.cause = "LocalDisconnect" <=>
                   reason = [ok |-> TRUE, reason |-> "LocalDisconnect"]

\* A remote disconnect was translated to Stopped with a closed-channel error.
C16_Witness ==
    /\ FinishedTranslated
    /\ input.reason = [ok |-> TRUE, reason |-> "RemoteDisconnect"]
    /\ output[1] = Ok([kind |-> "Stopped",
                       cause |-> ErrorCause(WebSocketError("ChannelClosed"))])

\* ============================================= a Running connection in use
\* The most calls made on the Running connection.
MaxRunningCalls == 3

\* Variant of ResponseArrives: the frame is handed to some parked send without
\* its id being looked up.
ResponseArrivesAnyWaiter(i) ==
    /\ readLoop = "running"
    /\ \E t \in Threads :
          /\ pc[t] = "parked"
          /\ responses' = Append(responses, [thread |-> t, request |-> reqId[t][1],
                                             frame |-> i])
          /\ result' = [result EXCEPT ![t] = "response"]
          /\ reqId' = [reqId EXCEPT ![t] = None]
          /\ pc' = [pc EXCEPT ![t] = "unlock"]
    /\ UNCHANGED <<conn, lockVars, callVars, streamVars, pendingMutex, taken,
                   attached, wire, input, output, ackInner, ackResults, decoded,
                   bridgeVars>>

\* The read loop receives a response frame with id i and looks i up in the
\* table of outstanding requests: the send parked on i resolves with the frame
\* and leaves the table; a frame nobody is parked on is dropped.
ResponseArrives(i) ==
    /\ readLoop = "running"
    /\ LET waiters == {t \in Threads : pc[t] = "parked" /\ reqId[t] = Some(i)}
       IN  IF waiters = {}
           THEN UNCHANGED <<responses, result, reqId, pc>>
           ELSE LET t == CHOOSE t \in waiters : TRUE
                IN  /\ responses' = Append(responses,
                                           [thread |-> t, request |-> reqId[t][1],
                                            frame |-> i])
                    /\ result' = [result EXCEPT ![t] = "response"]
                    /\ reqId' = [reqId EXCEPT ![t] = None]
                    /\ pc' = [pc EXCEPT ![t] = "unlock"]
    /\ UNCHANGED <<conn, lockVars, callVars, streamVars, pendingMutex, taken,
                   attached, wire, input, output, ackInner, ackResults, decoded,
                   bridgeVars>>

\* FakeChatConnection-like start: Running, nothing sent yet.
InitRunning == RunningGate /\ AuxInit

\* Callers send and disconnect; the server answers any id, written or not, in
\* any order and any number of times; timeouts elapse; the read loop ends.
NextRunning ==
    \/ \E t \in Threads, o \in {"send", "disconnect"} :
          calls < MaxRunningCalls /\ Call(t, o, "none")
    \/ \E t \in Threads : Grant(t)
    \/ \E t \in Threads : Send(t)
    \/ \E t \in Threads : Disconnect(t)
    \/ \E i \in 0 .. Len(wire) : ResponseArrives(i)
    \/ \E t \in Threads, outcome \in {"timeout", "terminated"} : SendResolve(t, outcome)
    \/ \E reason \in FinishReasons : ReadLoopFinish(reason)
    \/ \E t \in Threads : Release(t)

SpecRunning == InitRunning /\ [][NextRunning]_vars

SpecDisconnect ==
    /\ SpecRunning
    /\ WF_vars(ReadLoopFinish([ok |-> TRUE, reason |-> "LocalDisconnect"]))
    /\ \A t \in Threads : WF_vars(SendResolve(t, "terminated"))

\* The listener's last callback is connection_interrupted(LocalDisconnect).
InterruptedByLocalDisconnect ==
    /\ callbacks # <<>>
    /\ callbacks[Len(callbacks)] =
           Callback("L1", "connection_interrupted", [cause |-> LocalDisconnectCause])

ChatResponse(status, headers, body) ==
    [status |-> status, headers |-> headers, body |-> body]

\* HeaderMap::get: the first value stored under the name, if any. Names in a
\* HeaderMap are lower case.
RECURSIVE HeaderGet(_, _)
HeaderGet(headers, name) ==
    IF headers = <<>> THEN None
    ELSE IF headers[1][1] = name THEN Some(headers[1][2])
    ELSE HeaderGet(Tail(headers), name)

\* Variant of IsSuccess: no status counts as a success once the connection's
\* read loop has ended.
IsSuccess_WhileConnected(status) ==
    readLoop = "running" /\ 200 <= status /\ status < 300

\* StatusCode::is_success
IsSuccess(status) == 200 <= status /\ status < 300

\* extract_retry_later: the delay the retry-after header asks for, a number of
\* seconds or a date, if the header is there and reads as one of the two.
ExtractRetryLater(headers) ==
    LET value == HeaderGet(headers, "retry-after")
    IN  CASE value = Some("120") -> Some([seconds |-> 120, until |-> ""])
          [] value = Some("0") -> Some([seconds |-> 0, until |-> ""])
          [] value = Some("Wed, 21 Oct 2015 07:28:00 GMT") ->
                Some([seconds |-> 0, until |-> "Wed, 21 Oct 2015 07:28:00 GMT"])
          [] OTHER -> None

\* A JSON text by what it says: of kind t ("object", "array", "string",
\* "number", "bool", "null") with content v, the members of an object being
\* <<key, value>> pairs in the order they are written. A text that is not
\* JSON is of kind "text", with the text as content.
Json(t, v) == [t |-> t, v |-> v]

\* The value of the first member of the object with the key, if any.
RECURSIVE MemberGet(_, _)
MemberGet(members, key) ==
    IF members = <<>> THEN None
    ELSE IF members[1][1] = key THEN Some(members[1][2])
    ELSE MemberGet(Tail(members), key)

\* The category of the error serde_json reports on a text that is not JSON:
\* nothing and a cut-off object end too early, a word and an object without a
\* colon are syntax errors. (Category::Io cannot come from a slice.)
JsonSyntaxError(text) ==
    CASE text = "" -> "Eof"
      [] text = "{\"id\":" -> "Eof"
      [] text = "not json" -> "Syntax"
      [] text = "{\"id\" \"fivesixseven\"}" -> "Syntax"

\* RequestedInformation, by its name in JSON.
RequestedInformationNames == {"pushChallenge", "captcha"}

\* Deserialize for an Option<Duration> field written as whole seconds: absent
\* or null is None, a number is Some, anything else is refused.
OptionalSecondsFromJson(members, key) ==
    LET member == MemberGet(members, key)
    IN  IF member = None \/ member[1].t = "null" THEN [ok |-> TRUE, value |-> None]
        ELSE IF member[1].t = "number"
        THEN [ok |-> TRUE, value |-> Some(member[1].v)]
        ELSE [ok |-> FALSE, value |-> None]

\* Deserialize for RegistrationSession from the members of the object it is
\* flattened into: two required flags, three optional timers and the set of
\* requested information.
RegistrationSessionFromJson(members) ==
    LET allowed == MemberGet(members, "allowedToRequestCode")
        verified == MemberGet(members, "verified")
        next_sms == OptionalSecondsFromJson(members, "nextSms")
        next_call == OptionalSecondsFromJson(members, "nextCall")
        next_attempt == OptionalSecondsFromJson(members, "nextVerificationAttempt")
        requested == MemberGet(members, "requestedInformation")
        requested_ok ==
            \/ requested = None
            \/ /\ requested[1].t = "array"
               /\ \A i \in DOMAIN requested[1].v :
                      /\ requested[1].v[i].t = "string"
                      /\ requested[1].v[i].v \in RequestedInformationNames
    IN  IF /\ allowed # None /\ allowed[1].t = "bool"
           /\ verified # None /\ verified[1].t = "bool"
           /\ next_sms.ok /\ next_call.ok /\ next_attempt.ok
           /\ requested_ok
        THEN [ok |-> TRUE,
              value |-> [allowed_to_request_code |-> allowed[1].v,
                         verified |-> verified[1].v,
                         next_sms |-> next_sms.value,
                         next_call |-> next_call.value,
                         next_verification_attempt |-> next_attempt.value,
                         requested_information |->
                             IF requested = None THEN {}
                             ELSE {requested[1].v[i].v : i \in DOMAIN requested[1].v}]]
        ELSE [ok |-> FALSE, category |-> "Data"]

\* Variant of RegistrationResponseFromJson: without #[serde(rename = "id")],
\* the session id is looked for under sessionId.
RegistrationResponseFromJson_NoRename(json) ==
    IF json.t # "object" THEN [ok |-> FALSE, category |-> "Data"]
    ELSE LET id == MemberGet(json.v, "sessionId")
             session == RegistrationSessionFromJson(json.v)
         IN  IF id = None THEN [ok |-> FALSE, category |-> "Data"]
             ELSE IF id[1].t # "string" THEN [ok |-> FALSE, category |-> "Data"]
             ELSE IF ~session.ok THEN session
             ELSE [ok |-> TRUE,
                   value |-> [session_id |-> id[1].v, session |-> session.value]]

\* #[derive(Deserialize)] for RegistrationResponse: the root must be an object,
\* its member id a string, and the other members, flattened, a session.
RegistrationResponseFromJson(json) ==
    IF json.t # "object" THEN [ok |-> FALSE, category |-> "Data"]
    ELSE LET id == MemberGet(json.v, "id")
             session == RegistrationSessionFromJson(json.v)
         IN  IF id = None THEN [ok |-> FALSE, category |-> "Data"]
             ELSE IF id[1].t # "string" THEN [ok |-> FALSE, category |-> "Data"]
             ELSE IF ~session.ok THEN session
             ELSE [ok |-> TRUE,
                   value |-> [session_id |-> id[1].v, session |-> session.value]]

\* serde_json::from_slice::<RegistrationResponse>(body): the value, or the
\* category of the error.
SerdeJsonFromSlice(body) ==
    IF body.t = "text"
    THEN [ok |-> FALSE, category |-> JsonSyntaxError(body.v)]
    ELSE RegistrationResponseFromJson(body)

\* The body of the test registration_response_deserialize.
RESPONSE_JSON ==
    Json("object",
         <<<<"id", Json("string", "fivesixseven")>>,
           <<"allowedToRequestCode", Json("bool", TRUE)>>,
           <<"verified", Json("bool", TRUE)>>,
           <<"requestedInformation",
             Json("array", <<Json("string", "pushChallenge"),
                             Json("string", "captcha")>>)>>>>)

\* Result<R, ResponseError>
DecodeOk(value) == [ok |-> TRUE, value |-> value]

\* Variant of try_into_response: the body is looked for before the
\* content-type.
try_into_response_BodyFirst(self) ==
    IF ~IsSuccess(self.status)
    THEN IF self.status = 429 /\ ExtractRetryLater(self.headers) # None
         THEN Err("RetryLater", ExtractRetryLater(self.headers)[1])
         ELSE IF self.status = 422
         THEN Err("InvalidRequest", "")
         ELSE Err("UnrecognizedStatus",
                  [status |-> self.status, response_headers |-> self.headers,
                   response_body |-> self.body])
    ELSE LET content_type == HeaderGet(self.headers, "content-type")
         IN  IF self.body = None
             THEN Err("MissingBody", "")
             ELSE IF content_type # Some("application/json")
             THEN Err("UnexpectedContentType", content_type)
             ELSE LET parsed == SerdeJsonFromSlice(self.body[1])
                  IN  IF parsed.ok THEN DecodeOk(parsed.value)
                      ELSE IF parsed.category = "Data"
                      THEN Err("UnexpectedData", "")
                      ELSE Err("InvalidJson", "")

\* Variant of try_into_response: retry-after is honoured on every unsuccessful
\* status.
try_into_response_RetryAnyStatus(self) ==
    IF ~IsSuccess(self.status)
    THEN IF ExtractRetryLater(self.headers) # None
         THEN Err("RetryLater", ExtractRetryLater(self.headers)[1])
         ELSE IF self.status = 422
         THEN Err("InvalidRequest", "")
         ELSE Err("UnrecognizedStatus",
                  [status |-> self.status, response_headers |-> self.headers,
                   response_body |-> self.body])
    ELSE LET content_type == HeaderGet(self.headers, "content-type")
         IN  IF content_type # Some("application/json")
             THEN Err("UnexpectedContentType", content_type)
             ELSE IF self.body = None
             THEN Err("MissingBody", "")
             ELSE LET parsed == SerdeJsonFromSlice(self.body[1])
                  IN  IF parsed.ok THEN DecodeOk(parsed.value)
                      ELSE IF parsed.category = "Data"
                      THEN Err("UnexpectedData", "")
                      ELSE Err("InvalidJson", "")

\* Variant of try_into_response: the content-type is checked before the
\* status.
try_into_response_ContentTypeFirst(self) ==
    LET content_type == HeaderGet(self.headers, "content-type")
    IN  IF content_type # Some("application/json")
        THEN Err("UnexpectedContentType", content_type)
        ELSE IF ~IsSuccess(self.status)
        THEN IF self.status = 429 /\ ExtractRetryLater(self.headers) # None
             THEN Err("RetryLater", ExtractRetryLater(self.headers)[1])
             ELSE IF self.status = 422
             THEN Err("InvalidRequest", "")
             ELSE Err("UnrecognizedStatus",
                      [status |-> self.status, response_headers |-> self.headers,
                       response_body |-> self.body])
        ELSE IF self.body = None
        THEN Err("MissingBody", "")
        ELSE LET parsed == SerdeJsonFromSlice(self.body[1])
             IN  IF parsed.ok THEN DecodeOk(parsed.value)
                 ELSE IF parsed.category = "Data"
                 THEN Err("UnexpectedData", "")
                 ELSE Err("InvalidJson", "")

\* Variant of try_into_response: the content-type is compared without regard
\* to letter case.
try_into_response_AnyCase(self) ==
    IF ~IsSuccess(self.status)
    THEN IF self.status = 429 /\ ExtractRetryLater(self.headers) # None
         THEN Err("RetryLater", ExtractRetryLater(self.headers)[1])
         ELSE IF self.status = 422
         THEN Err("InvalidRequest", "")
         ELSE Err("UnrecognizedStatus",
                  [status |-> self.status, response_headers |-> self.headers,
                   response_body |-> self.body])
    ELSE LET content_type == HeaderGet(self.headers, "content-type")
         IN  IF content_type \notin {Some("application/json"),
                                     Some("Application/JSON")}
             THEN Err("UnexpectedContentType", content_type)
             ELSE IF self.body = None
             THEN Err("MissingBody", "")
             ELSE LET parsed == SerdeJsonFromSlice(self.body[1])
                  IN  IF parsed.ok THEN DecodeOk(parsed.value)
                      ELSE IF parsed.category = "Data"
                      THEN Err("UnexpectedData", "")
                      ELSE Err("InvalidJson", "")

\* <ChatResponse as RegistrationChatResponse>::try_into_response
try_into_response(self) ==
    IF ~IsSuccess(self.status)
    THEN IF self.status = 429 /\ ExtractRetryLater(self.headers) # None
         THEN Err("RetryLater", ExtractRetryLater(self.headers)[1])
         ELSE IF self.status = 422
         THEN Err("InvalidRequest", "")
         ELSE Err("UnrecognizedStatus",
                  [status |-> self.status, response_headers |-> self.headers,
                   response_body |-> self.body])
    ELSE LET content_type == HeaderGet(self.headers, "content-type")
         IN  IF content_type # Some("application/json")
             THEN Err("UnexpectedContentType", content_type)
             ELSE IF self.body = None
             THEN Err("MissingBody", "")
             ELSE LET parsed == SerdeJsonFromSlice(self.body[1])
                  IN  IF parsed.ok THEN DecodeOk(parsed.value)
                      ELSE IF parsed.category = "Data"
                      THEN Err("UnexpectedData", "")
                      ELSE Err("InvalidJson", "")

\* Every response over a few statuses, all header lists up to MaxHeaders and
\* no body or one of seven: the body of the test, nothing, a cut-off object, a
\* word, an object without a colon, an object without members, and an object
\* whose id is a number.
ChatResponses ==
    {ChatResponse(status, headers, body) :
        status \in {200, 204, 302, 400, 422, 429, 503},
        headers \in SeqsUpTo({<<"content-type", "application/json">>,
                              <<"content-type", "text/plain">>,
                              <<"content-type", "application/json; charset=utf-8">>,
                              <<"content-type", "Application/JSON">>,
                              <<"retry-after", "120">>,
                              <<"retry-after", "soon">>,
                              <<"retry-after", "Wed, 21 Oct 2015 07:28:00 GMT">>},
                             MaxHeaders),
        body \in {None} \cup
                 {Some(b) : b \in
                    {RESPONSE_JSON,
                     Json("text", ""), Json("text", "{\"id\":"),
                     Json("text", "not json"),
                     Json("text", "{\"id\" \"fivesixseven\"}"),
                     Json("object", <<>>),
                     Json("object", <<<<"id", Json("number", 7)>>,
                                      <<"allowedToRequestCode", Json("bool", TRUE)>>,
                                      <<"verified", Json("bool", TRUE)>>>>)}}}

\* One response is about to be decoded.
InitDecode ==
    /\ RunningGate
    /\ input \in ChatResponses
    /\ output = None
    /\ ackInner = <<>>
    /\ ackResults = <<>>
    /\ responses = <<>>
    /\ decoded = <<>>
    /\ BridgeInit

\* input.try_into_response::<RegistrationResponse>()
Decode ==
    /\ output = None
    /\ output' = Some(try_into_response(input))
    /\ UNCHANGED <<gateVars, streamVars, input, ackInner, ackResults, responses,
                   decoded,
                   bridgeVars>>

NextDecode == Decode

SpecDecode == InitDecode /\ [][NextDecode]_vars

\* The kind of the error the response was decoded to, "" for a value.
DecodedErr == IF output[1].ok THEN "" ELSE output[1].err.kind

\* C19: the checks of try_into_response are made in one order and the first
\* that fails decides: an unsuccessful status (429 with a retry-after delay,
\* then 422, then any other, reported with the response's status, headers and
\* body as they were), then the content-type, then a missing body, then the
\* JSON (a syntax or EOF error is InvalidJson, a value of the wrong shape is
\* UnexpectedData). Only a 2xx response is ever decoded to a value.
C19_FirstFailingCheckDecides ==
    output # None =>
        LET retry == ExtractRetryLater(input.headers)
            content_type == HeaderGet(input.headers, "content-type")
        IN  IF input.status < 200 \/ input.status > 299
            THEN IF input.status = 429 /\ retry # None
                 THEN DecodedErr = "RetryLater"
                 ELSE IF input.status = 422
                 THEN DecodedErr = "InvalidRequest"
                 ELSE /\ DecodedErr = "UnrecognizedStatus"
                      /\ output[1].err.detail.status = input.status
                      /\ output[1].err.detail.response_headers = input.headers
                      /\ output[1].err.detail.response_body = input.body
            ELSE IF content_type # Some("application/json")
            THEN DecodedErr = "UnexpectedContentType"
            ELSE IF input.body = None
            THEN DecodedErr = "MissingBody"
            ELSE IF SerdeJsonFromSlice(input.body[1]).ok
            THEN output[1] = DecodeOk(SerdeJsonFromSlice(input.body[1]).value)
            ELSE IF SerdeJsonFromSlice(input.body[1]).category \in {"Syntax", "Io", "Eof"}
            THEN DecodedErr = "InvalidJson"
            ELSE DecodedErr = "UnexpectedData"

\* A 200 response with content-type text/plain and no body was refused for its
\* content-type, not for the missing body.
C19_Witness ==
    /\ output # None
    /\ input = ChatResponse(200, <<<<"content-type", "text/plain">>>>, None)
    /\ DecodedErr = "UnexpectedContentType"
    /\ output[1].err.detail = Some("text/plain")

\* C20: the result is RetryLater exactly when the status is 429 and a delay can
\* be read from the retry-after header; a 429 without one is an
\* UnrecognizedStatus, and so is any other unsuccessful status that is not 422,
\* with or without a retry-after header.
C20_RetryLaterOnlyFor429 ==
    output # None =>
        /\ DecodedErr = "RetryLater" <=>
               (input.status = 429 /\ ExtractRetryLater(input.headers) # None)
        /\ DecodedErr = "RetryLater" =>
               output[1].err.detail = ExtractRetryLater(input.headers)[1]
        /\ (input.status = 429 /\ ExtractRetryLater(input.headers) = None) =>
               DecodedErr = "UnrecognizedStatus"
        /\ (input.status \in {302, 400, 503}) => DecodedErr = "UnrecognizedStatus"

\* A 429 that asks to retry after 120 seconds was decoded to RetryLater with
\* that delay.
C20_Witness ==
    /\ output # None
    /\ input.status = 429
    /\ input.headers = <<<<"retry-after", "120">>>>
    /\ DecodedErr = "RetryLater"
    /\ output[1].err.detail.seconds = 120

\* C21: a response with status 422 is decoded to InvalidRequest whatever its
\* headers and body are.
C21_Status422IsInvalidRequest ==
    (output # None /\ input.status = 422) => DecodedErr = "InvalidRequest"

\* A 422 with content-type text/plain, a retry-after header and a body that
\* would decode was decoded to InvalidRequest.
C21_Witness ==
    /\ output # None
    /\ input.status = 422
    /\ input.headers = <<<<"content-type", "text/plain">>, <<"retry-after", "120">>>>
    /\ input.body # None
    /\ SerdeJsonFromSlice(input.body[1]).ok
    /\ DecodedErr = "InvalidRequest"

\* C22 as stated: every response that has a body and whose content-type is
\* not exactly application/json, whatever its status, is decoded to
\* UnexpectedContentType carrying the content-type it has.
C22_WrongContentTypeAnyStatus ==
    (/\ output # None
     /\ input.body # None
     /\ HeaderGet(input.headers, "content-type") # Some("application/json")) =>
        /\ DecodedErr = "UnexpectedContentType"
        /\ output[1].err.detail = HeaderGet(input.headers, "content-type")

\* C22, amended: every response with a 2xx status that has a body and whose
\* content-type is absent or not exactly application/json is decoded to
\* UnexpectedContentType carrying the content-type it has, whether or not the
\* body would decode; with any other status the status decides first.
C22_WrongContentTypeOn2xx ==
    (/\ output # None
     /\ input.body # None
     /\ HeaderGet(input.headers, "content-type") # Some("application/json")) =>
        IF input.status \in 200 .. 299
        THEN /\ DecodedErr = "UnexpectedContentType"
             /\ output[1].err.detail = HeaderGet(input.headers, "content-type")
        ELSE DecodedErr \in {"RetryLater", "InvalidRequest", "UnrecognizedStatus"}

\* A 200 response whose content-type differs from application/json only in
\* letter case, with a body that would decode, was refused carrying that
\* content-type.
C22_Witness ==
    /\ output # None
    /\ input.status = 200
    /\ input.headers = <<<<"content-type", "Application/JSON">>>>
    /\ input.body # None
    /\ SerdeJsonFromSlice(input.body[1]).ok
    /\ DecodedErr = "UnexpectedContentType"
    /\ output[1].err.detail = Some("Application/JSON")

\* ------------------------------------------- decoding one response after another
\* The most responses decoded in a row.
MaxDecodes == 2

\* Responses of every outcome: a value, each kind of error.
DecodeSamples ==
    {ChatResponse(200, <<<<"content-type", "application/json">>>>, Some(RESPONSE_JSON)),
     ChatResponse(200, <<<<"content-type", "application/json">>>>,
                  Some(Json("text", "not json"))),
     ChatResponse(200, <<<<"content-type", "application/json">>>>,
                  Some(Json("object", <<>>))),
     ChatResponse(200, <<<<"content-type", "application/json">>>>, None),
     ChatResponse(204, <<<<"content-type", "text/plain">>>>, Some(RESPONSE_JSON)),
     ChatResponse(422, <<>>, None),
     ChatResponse(429, <<<<"retry-after", "120">>>>, None),
     ChatResponse(503, <<<<"retry-after", "120">>>>, Some(Json("text", "not json")))}

\* A response has arrived and is about to be decoded; the connection is
\* Running.
InitDecodeLog ==
    /\ RunningGate
    /\ input \in DecodeSamples
    /\ output = None
    /\ ackInner = <<>>
    /\ ackResults = <<>>
    /\ responses = <<>>
    /\ decoded = <<>>
    /\ BridgeInit

\* input.try_into_response(), remembered with the state of the connection at
\* the time.
DecodeLogged ==
    /\ output = None
    /\ Len(decoded) < MaxDecodes
    /\ output' = Some(try_into_response(input))
    /\ decoded' = Append(decoded, [response |-> input,
                                   result |-> try_into_response(input),
                                   readLoop |-> readLoop])
    /\ UNCHANGED <<gateVars, streamVars, input, ackInner, ackResults, responses,
                   bridgeVars>>

\* The next response arrives.
NextResponse(response) ==
    /\ output # None
    /\ input' = response
    /\ output' = None
    /\ UNCHANGED <<gateVars, streamVars, ackInner, ackResults, responses, decoded,
                   bridgeVars>>

\* Responses are decoded one after another while the connection is closed and
\* its read loop ends.
NextDecodeLog ==
    \/ DecodeLogged
    \/ \E response \in DecodeSamples : NextResponse(response)
    \/ LocalDisconnect
    \/ \E reason \in FinishReasons : ReadLoopFinish(reason)

SpecDecodeLog == InitDecodeLog /\ [][NextDecodeLog]_vars

SessionTimers == {None, Some(0), Some(60)}

\* RegistrationResponse values.
RegistrationResponses ==
    [session_id : {"", "fivesixseven"},
     session : [allowed_to_request_code : BOOLEAN,
                verified : BOOLEAN,
                next_sms : SessionTimers,
                next_call : {None, Some(60)},
                next_verification_attempt : {None, Some(0)},
                requested_information : SUBSET RequestedInformationNames]]

\* The orders in which the elements of a set can be written out.
Orderings(S) ==
    {order \in [1..Cardinality(S) -> S] :
        \A i, j \in 1..Cardinality(S) : order[i] = order[j] => i = j}

\* An Option<Duration> as written by Serialize: null or a number of seconds.
OptionalSecondsToJson(o) ==
    IF o = None THEN Json("null", "null") ELSE Json("number", o[1])

\* serde_json::to_vec(&self) for a RegistrationResponse: one object holding
\* the session id under "id" followed by the members of the flattened
\* session; the set of requested information is written in the order its
\* iteration happens to give.
RegistrationResponseToJson(self, order) ==
    Json("object",
         <<<<"id", Json("string", self.session_id)>>,
           <<"allowedToRequestCode", Json("bool", self.session.allowed_to_request_code)>>,
           <<"verified", Json("bool", self.session.verified)>>,
           <<"nextSms", OptionalSecondsToJson(self.session.next_sms)>>,
           <<"nextCall", OptionalSecondsToJson(self.session.next_call)>>,
           <<"nextVerificationAttempt",
             OptionalSecondsToJson(self.session.next_verification_attempt)>>,
           <<"requestedInformation",
             Json("array", [i \in DOMAIN order |-> Json("string", order[i])])>>>>)

\* RegistrationResponse::into_websocket_response, as the ChatResponse it is
\* received as.
into_websocket_response(self, order) ==
    ChatResponse(200, <<<<"content-type", "application/json">>>>,
                 Some(RegistrationResponseToJson(self, order)))

\* A RegistrationResponse value is about to be serialized.
InitRoundTrip ==
    /\ RunningGate
    /\ input \in RegistrationResponses
    /\ output = None
    /\ ackInner = <<>>
    /\ ackResults = <<>>
    /\ responses = <<>>
    /\ decoded = <<>>
    /\ BridgeInit

\* input.into_websocket_response().try_into_response()
RoundTrip(order) ==
    /\ output = None
    /\ output' = Some(try_into_response(into_websocket_response(input, order)))
    /\ decoded' = <<[response |-> into_websocket_response(input, order),
                     result |-> try_into_response(into_websocket_response(input, order)),
                     readLoop |-> readLoop]>>
    /\ UNCHANGED <<gateVars, streamVars, input, ackInner, ackResults, responses,
                   bridgeVars>>

NextRoundTrip ==
    \E order \in Orderings(input.session.requested_information) : RoundTrip(order)

SpecRoundTrip == InitRoundTrip /\ [][NextRoundTrip]_vars

CONTENT_TYPE_JSON == <<"content-type", "application/json">>

VERIFICATION_SESSION_PATH_PREFIX == "/v1/verification/session"

\* #[skip_serializing_none]: the members whose value is Some, as JSON strings.
SkipSerializingNone(members) ==
    LET kept == SelectSeq(members, LAMBDA member : member[2] # None)
    IN  [i \in DOMAIN kept |-> <<kept[i][1], Json("string", kept[i][2][1])>>]

\* Base64Padded, for the byte strings used here.
Base64Padded(bytes) ==
    CASE bytes = "recovery" -> "cmVjb3Zlcnk="
      [] bytes = "rp" -> "cnA="
      [] bytes = "" -> ""

\* The registration operations and their parameters.
SessionIds == {"aaabbbcccdddeee", "abc"}

RegistrationOperations ==
    [kind : {"GetSession"}, session_id : SessionIds]
    \cup [kind : {"UpdateRegistrationSession"}, session_id : SessionIds,
          captcha : {None, Some("captcha")},
          push_token : {None, Some("token")},
          push_token_type : {None, Some("apn")},
          push_challenge : {None, Some("challenge")}]
    \cup [kind : {"RequestVerificationCode"}, session_id : SessionIds,
          transport : {"sms", "voice"}, client : {"client name"},
          language_list : {None, Some("tlh")}]
    \cup [kind : {"SubmitVerificationCode"}, session_id : SessionIds,
          code : {"123456", ""}]
    \cup [kind : {"CreateSession"}, number : {"+18005550101"}]
    \cup [kind : {"CheckSvr2Credentials"}, number : {"+18005550123"},
          tokens : {<<>>, <<"user:pass1", "user:pass2">>}]
    \cup [kind : {"RegisterAccount"}, number : {"+18005550101"},
          session : {None, Some("abc"), Some("")},
          message_notification : {[mode |-> "Apn", token |-> "appleId"],
                                  [mode |-> "Gcm", token |-> "googleId"],
                                  [mode |-> "WillFetchMessages", token |-> ""]},
          recovery_password : {"recovery", "rp", ""},
          device_transfer : {None, Some("SkipDeviceTransfer")},
          account_password : {"encoded account password"}]

\* Request::METHOD
METHOD(request) ==
    CASE request.kind = "GetSession" -> "GET"
      [] request.kind = "UpdateRegistrationSession" -> "PATCH"
      [] request.kind = "RequestVerificationCode" -> "POST"
      [] request.kind = "SubmitVerificationCode" -> "PUT"

\* Request::request_path
request_path(request, session_id) ==
    IF request.kind \in {"GetSession", "UpdateRegistrationSession"}
    THEN VERIFICATION_SESSION_PATH_PREFIX \o "/" \o session_id
    ELSE VERIFICATION_SESSION_PATH_PREFIX \o "/" \o session_id \o "/code"

\* Variant of headers: the default of the trait, no headers, for every request.
headers_Default(request) == <<>>

\* Request::headers: none, but for the language list of
\* RequestVerificationCode.
headers(request) ==
    IF request.kind = "RequestVerificationCode" /\ request.language_list # None
    THEN <<<<"accept-language", request.language_list[1]>>>>
    ELSE <<>>

\* Request::to_json_body
to_json_body(request) ==
    CASE request.kind = "GetSession" -> None
      [] request.kind = "UpdateRegistrationSession" ->
            Some(Json("object",
                      SkipSerializingNone(<<<<"captcha", request.captcha>>,
                                            <<"pushToken", request.push_token>>,
                                            <<"pushTokenType", request.push_token_type>>,
                                            <<"pushChallenge", request.push_challenge>>>>)))
      [] request.kind = "RequestVerificationCode" ->
            Some(Json("object", <<<<"transport", Json("string", request.transport)>>,
                                  <<"client", Json("string", request.client)>>>>))
      [] request.kind = "SubmitVerificationCode" ->
            Some(Json("object", <<<<"code", Json("string", request.code)>>>>))

\* A ChatRequest.
Request(method, path, hdrs, body) ==
    [method |-> method, path |-> path, headers |-> hdrs, body |-> body]

\* Variant of FromRegistrationRequest: the content-type header is added
\* whether or not there is a body.
FromRegistrationRequest_AlwaysContentType(request) ==
    Request(METHOD(request), request_path(request, request.session_id),
            headers(request) \o <<CONTENT_TYPE_JSON>>, to_json_body(request))

\* From<RegistrationRequest<R>> for ChatRequest
FromRegistrationRequest(request) ==
    LET path == request_path(request, request.session_id)
        body == to_json_body(request)
    IN  Request(METHOD(request), path,
                headers(request) \o (IF body # None THEN <<CONTENT_TYPE_JSON>> ELSE <<>>),
                body)

\* From<CreateSession> and From<CheckSvr2CredentialsRequest> for ChatRequest
FromFixedPathRequest(request) ==
    IF request.kind = "CreateSession"
    THEN Request("POST", VERIFICATION_SESSION_PATH_PREFIX, <<CONTENT_TYPE_JSON>>,
                 Some(Json("object", <<<<"number", Json("string", request.number)>>>>)))
    ELSE Request("POST", "/v2/backup/auth/check", <<CONTENT_TYPE_JSON>>,
                 Some(Json("object",
                           <<<<"number", Json("string", request.number)>>,
                             <<"tokens",
                               Json("array", [i \in DOMAIN request.tokens |->
                                                 Json("string", request.tokens[i])])>>>>)))

\* Variant of SessionValidationOf: the recovery password is sent even when a
\* session id is given.
SessionValidationOf_AlwaysPassword(session_id, recovery_password) ==
    <<"recoveryPassword", Json("string", Base64Padded(recovery_password))>>

\* session_id.map(SessionId).unwrap_or(RecoveryPassword(..)), as the one
\* member the flattened enum writes.
SessionValidationOf(session_id, recovery_password) ==
    IF session_id # None
    THEN <<"sessionId", Json("string", session_id[1])>>
    ELSE <<"recoveryPassword", Json("string", Base64Padded(recovery_password))>>

\* Variant of PushTokenOf: a Gcm token is sent as an Apn registration id.
PushTokenOf_GcmAsApn(message_notification) ==
    IF message_notification.mode = "WillFetchMessages"
    THEN [fetches_messages |-> TRUE, push_token |-> None]
    ELSE [fetches_messages |-> FALSE,
          push_token |-> Some(Json("object",
              <<<<"apnRegistrationId", Json("string", message_notification.token)>>>>))]

\* match message_notification { .. }: (fetches_messages, push_token)
PushTokenOf(message_notification) ==
    CASE message_notification.mode = "Apn" ->
            [fetches_messages |-> FALSE,
             push_token |-> Some(Json("object",
                 <<<<"apnRegistrationId", Json("string", message_notification.token)>>>>))]
      [] message_notification.mode = "Gcm" ->
            [fetches_messages |-> FALSE,
             push_token |-> Some(Json("object",
                 <<<<"gcmRegistrationId", Json("string", message_notification.token)>>>>))]
      [] message_notification.mode = "WillFetchMessages" ->
            [fetches_messages |-> TRUE, push_token |-> None]

\* ChatRequest::register_account. The keys are the same in every call and are
\* written as their names.
register_account(request) ==
    LET notification == PushTokenOf(request.message_notification)
        session_validation ==
            SessionValidationOf(request.session, request.recovery_password)
        account_attributes ==
            Json("object",
                 <<<<"fetchesMessages", Json("bool", notification.fetches_messages)>>,
                   <<"recoveryPassword",
                     Json("string", Base64Padded(request.recovery_password))>>,
                   <<"registrationId", Json("number", 123)>>,
                   <<"pniRegistrationId", Json("number", 456)>>>>)
        always ==
            <<session_validation,
              <<"accountAttributes", account_attributes>>,
              <<"skipDeviceTransfer", Json("bool", request.device_transfer # None)>>,
              <<"aciIdentityKey", Json("string", "aci identity key")>>,
              <<"pniIdentityKey", Json("string", "pni identity key")>>,
              <<"aciSignedPreKey", Json("string", "aci signed pre key")>>,
              <<"pniSignedPreKey", Json("string", "pni signed pre key")>>,
              <<"aciPqLastResortPreKey", Json("string", "aci last resort key")>>,
              <<"pniPqLastResortPreKey", Json("string", "pni last resort key")>>>>
        push_token ==
            IF notification.push_token = None THEN <<>>
            ELSE <<<<"pushToken", notification.push_token[1]>>>>
    IN  Request("POST", "/v1/registration",
                <<CONTENT_TYPE_JSON,
                  <<"authorization",
                    "Basic KzE4MDA1NTUwMTAxOmVuY29kZWQgYWNjb3VudCBwYXNzd29yZA==">>>>,
                Some(Json("object", always \o push_token)))

\* The wire request of an operation.
IntoChatRequest(request) ==
    IF request.kind = "RegisterAccount" THEN register_account(request)
    ELSE IF request.kind \in {"CreateSession", "CheckSvr2Credentials"}
    THEN FromFixedPathRequest(request)
    ELSE FromRegistrationRequest(request)

\* An operation is about to be turned into its wire request.
InitRequest ==
    /\ RunningGate
    /\ input \in RegistrationOperations
    /\ output = None
    /\ ackInner = <<>>
    /\ ackResults = <<>>
    /\ responses = <<>>
    /\ decoded = <<>>
    /\ BridgeInit

BuildRequest ==
    /\ output = None
    /\ output' = Some(IntoChatRequest(input))
    /\ UNCHANGED <<gateVars, streamVars, input, ackInner, ackResults, responses,
                   decoded,
                   bridgeVars>>

NextRequest == BuildRequest

SpecRequest == InitRequest /\ [][NextRequest]_vars

\* The keys at the root of a JSON object.
RootKeys(json) == {json.v[i][1] : i \in DOMAIN json.v}

RegisterAccountBuilt == output # None /\ input.kind = "RegisterAccount"

\* C25: the root of every register_account body holds exactly one of the keys
\* sessionId and recoveryPassword: sessionId, with the given id, when a
\* session id is given; otherwise recoveryPassword, taken from the account
\* attributes.
C25_ExactlyOneSessionValidation ==
    RegisterAccountBuilt =>
        LET body == output[1].body[1]
            count == Cardinality({i \in DOMAIN body.v :
                                     body.v[i][1] \in {"sessionId", "recoveryPassword"}})
        IN  /\ count = 1
            /\ IF input.session # None
               THEN /\ MemberGet(body.v, "sessionId") = Some(Json("string", input.session[1]))
                    /\ "recoveryPassword" \notin RootKeys(body)
               ELSE /\ "sessionId" \notin RootKeys(body)
                    /\ MemberGet(body.v, "recoveryPassword")
                         = MemberGet(MemberGet(body.v, "accountAttributes")[1].v,
                                     "recoveryPassword")

\* A call with a session id (the empty one) and a non-empty recovery password
\* produced sessionId at the root and the password only inside
\* accountAttributes.
C25_Witness ==
    /\ RegisterAccountBuilt
    /\ input.session = Some("")
    /\ input.recovery_password = "recovery"
    /\ "sessionId" \in RootKeys(output[1].body[1])
    /\ "recoveryPassword" \notin RootKeys(output[1].body[1])
    /\ "recoveryPassword" \in
           RootKeys(MemberGet(output[1].body[1].v, "accountAttributes")[1])

\* C26: pushToken is omitted exactly when accountAttributes.fetchesMessages
\* is true, which is the mode WillFetchMessages; otherwise fetchesMessages is
\* false and pushToken is an object with the single key apnRegistrationId
\* (Apn) or gcmRegistrationId (Gcm).
C26_PushTokenOrFetchesMessages ==
    RegisterAccountBuilt =>
        LET body == output[1].body[1]
            fetches == MemberGet(MemberGet(body.v, "accountAttributes")[1].v,
                                 "fetchesMessages")
            push_token == MemberGet(body.v, "pushToken")
            mode == input.message_notification.mode
        IN  /\ fetches \in {Some(Json("bool", TRUE)), Some(Json("bool", FALSE))}
            /\ (push_token = None) <=> fetches[1].v
            /\ fetches[1].v <=> mode = "WillFetchMessages"
            /\ push_token # None =>
                  push_token[1] =
                      Json("object",
                           <<<<IF mode = "Apn" THEN "apnRegistrationId"
                               ELSE "gcmRegistrationId",
                               Json("string", input.message_notification.token)>>>>)

\* A Gcm call produced a gcmRegistrationId and fetchesMessages false.
C26_Witness ==
    /\ RegisterAccountBuilt
    /\ input.message_notification.mode = "Gcm"
    /\ RootKeys(MemberGet(output[1].body[1].v, "pushToken")[1]) = {"gcmRegistrationId"}
    /\ MemberGet(MemberGet(output[1].body[1].v, "accountAttributes")[1].v,
                 "fetchesMessages") = Some(Json("bool", FALSE))

\* The method and path the operations are documented with.
OperationTable(request) ==
    CASE request.kind = "GetSession" ->
            <<"GET", "/v1/verification/session/" \o request.session_id>>
      [] request.kind = "UpdateRegistrationSession" ->
            <<"PATCH", "/v1/verification/session/" \o request.session_id>>
      [] request.kind = "RequestVerificationCode" ->
            <<"POST", "/v1/verification/session/" \o request.session_id \o "/code">>
      [] request.kind = "SubmitVerificationCode" ->
            <<"PUT", "/v1/verification/session/" \o request.session_id \o "/code">>
      [] request.kind = "CreateSession" -> <<"POST", "/v1/verification/session">>
      [] request.kind = "CheckSvr2Credentials" -> <<"POST", "/v2/backup/auth/check">>
      [] request.kind = "RegisterAccount" -> <<"POST", "/v1/registration">>

\* C27: each operation is sent with its fixed method and path; the request
\* carries content-type: application/json exactly when it has a body; and
\* GetSession has no headers and no body.
C27_MethodPathAndContentType ==
    output # None =>
        /\ <<output[1].method, output[1].path>> = OperationTable(input)
        /\ (HeaderGet(output[1].headers, "content-type") = Some("application/json"))
               <=> output[1].body # None
        /\ (HeaderGet(output[1].headers, "content-type") = None)
               <=> output[1].body = None
        /\ input.kind = "GetSession" =>
               output[1].headers = <<>> /\ output[1].body = None

\* A RequestVerificationCode with a language list was sent as a POST to the
\* session's code path with a body and both headers.
C27_Witness ==
    /\ output # None
    /\ input.kind = "RequestVerificationCode"
    /\ input.language_list # None
    /\ output[1].method = "POST"
    /\ output[1].path = "/v1/verification/session/abc/code"
    /\ Len(output[1].headers) = 2
    /\ output[1].body # None

\* ----------------------------------------------------- unwinding and cancelling
\* A panic unwinds out of init_listener after the pending connection was taken
\* out of the gate and before the Running one is stored: nothing puts a
\* connection back, and dropping the write guard does not poison the lock.
InitFinishUnwinds(t) ==
    /\ pc[t] = "finish_connect"
    /\ result' = [result EXCEPT ![t] = "panic_finish_connect"]
    /\ pc' = [pc EXCEPT ![t] = "unwinding"]
    /\ UNCHANGED <<conn, lockVars, callVars, streamVars, pendingMutex, taken,
                   attached, wire, reqId>>
    /\ UNCHANGED auxVars

\* The future of a parked send is dropped: its read guard goes with it.
SendCancelled(t) ==
    /\ pc[t] = "parked"
    /\ result' = [result EXCEPT ![t] = "cancelled"]
    /\ reqId' = [reqId EXCEPT ![t] = None]
    /\ pc' = [pc EXCEPT ![t] = "unwinding"]
    /\ UNCHANGED <<conn, lockVars, callVars, streamVars, pendingMutex, taken,
                   attached, wire>>
    /\ UNCHANGED auxVars

\* The gate, with callers that may be cancelled or unwind at any point.
NextUnwind ==
    \/ \E t \in Threads, o \in Ops, l \in Listeners \cup {"none"} :
          calls < MaxRunningCalls /\ Call(t, o, l)
    \/ \E t \in Threads : Grant(t)
    \/ \E t \in Threads : Release(t)
    \/ \E t \in Threads : InitReplace(t)
    \/ \E t \in Threads : InitMatch(t)
    \/ \E t \in Threads : InitFinish(t)
    \/ \E t \in Threads : InitFinishUnwinds(t)
    \/ \E t \in Threads : Send(t)
    \/ \E t \in Threads, outcome \in {"response", "timeout", "terminated"} :
          SendResolve(t, outcome)
    \/ \E t \in Threads : SendCancelled(t)
    \/ \E t \in Threads : Disconnect(t)
    \/ \E t \in Threads : Info(t)
    \/ \E t \in Threads : LockPending(t)
    \/ \E t \in Threads : PendingOp(t)
    \/ \E reason \in FinishReasons : ReadLoopFinish(reason)

SpecUnwind == Init /\ [][NextUnwind]_vars

\* C28: the gate stays consistent when a caller is cancelled or unwinds at any
\* point, the window of init_listener between evicting the pending connection
\* and storing the Running one included: whenever the write lock is free the
\* gate is WaitingForListener or Running, and every send, disconnect or info
\* that holds the lock finds it so.
C28_ConsistentAfterUnwind ==
    /\ rwWriter = {} => conn.tag \in {"WaitingForListener", "Running"}
    /\ \A t \in Threads :
          pc[t] = "locked" /\ op[t] \in {"send", "disconnect", "info"} =>
              conn.tag \in {"WaitingForListener", "Running"}

\* -------------------------------------------- callers of a Running connection
\* The caller of a repeated init_listener, one that is not among Threads.
LateCaller == 0

\* init_listener is called on the Running gate by yet another caller:
\* blocking_write() queues for the lock in writer mode.
LateInitCall ==
    /\ calls < MaxRunningCalls
    /\ \A i \in DOMAIN rwQueue : rwQueue[i][1] # LateCaller
    /\ calls' = calls + 1
    /\ rwQueue' = Append(rwQueue, <<LateCaller, "w">>)
    /\ UNCHANGED <<conn, rwWriter, rwReaders, pendingMutex, pc, op, arg, taken,
                   result, duringWrite, streamVars, attached, wire, reqId>>
    /\ UNCHANGED auxVars

\* That call is given the write lock, finds the gate Running, puts the
\* connection back, panics with "listener already set" and drops the guard;
\* no other caller runs meanwhile.
LateInitRun ==
    /\ rwQueue # <<>>
    /\ Head(rwQueue) = <<LateCaller, "w">>
    /\ CanGrant("w")
    /\ conn.tag = "Running"
    /\ rwQueue' = Tail(rwQueue)
    /\ UNCHANGED <<conn, rwWriter, rwReaders, pendingMutex, pc, op, arg, taken,
                   result, calls, duringWrite, streamVars, attached, wire, reqId>>
    /\ UNCHANGED auxVars

NextContention ==
    \/ \E t \in Threads, o \in {"send", "disconnect", "info"} :
          calls < MaxRunningCalls /\ Call(t, o, "none")
    \/ LateInitCall
    \/ LateInitRun
    \/ \E t \in Threads : Grant(t)
    \/ \E t \in Threads : Send(t)
    \/ \E t \in Threads : Disconnect(t)
    \/ \E t \in Threads : Info(t)
    \/ \E t \in Threads, outcome \in {"response", "timeout", "terminated"} :
          SendResolve(t, outcome)
    \/ \E reason \in FinishReasons : ReadLoopFinish(reason)
    \/ \E t \in Threads : Release(t)

SpecContention == InitRunning /\ [][NextContention]_vars

\* Caller u waits for the lock with nothing but readers before it in the queue.
OnlyReadersAhead(u) ==
    \E k \in DOMAIN rwQueue :
        /\ rwQueue[k][1] = u
        /\ \A i \in 1..k : rwQueue[i][2] = "r"

ParkedAndWaiting(t, u) ==
    /\ pc[t] = "parked"
    /\ pc[u] = "wait_lock"
    /\ op[u] \in {"send", "disconnect", "info"}

AcquiresWrite(t) == t \in rwWriter' /\ t \notin rwWriter
AcquiresRead(t) == t \in rwReaders' /\ t \notin rwReaders

C31_DisconnectedPendingIsTerminal ==
    [][(transport = "closed" /\ readLoop = "not_started") =>
           (attached' = attached /\ conn'.tag # "Running")]_vars

\* ------------------------------------------------------------ firing the ack
\* responder.send_response(status): the response frame written for the request
\* the responder was made for.
send_response(responder, status) ==
    [id |-> UnwrapOr(responder, 0), status |-> status]

\* A server request frame has arrived on a Running connection.
InitFire ==
    /\ RunningGate
    /\ input \in {ReceivedMessage(proto, proto.id) : proto \in ListenerFrames}
    /\ output = None
    /\ ackInner = None
    /\ ackResults = <<>>
    /\ responses = <<>>
    /\ decoded = <<>>
    /\ BridgeInit

\* The read loop hands the frame to the listener's closure: it is translated
\* and, when it is a message, the listener is given a ServerMessageAck around
\* the sender.
DeliverAck ==
    /\ output = None
    /\ readLoop = "running"
    /\ Deliver(input)
    /\ output' = Some(TryFromListenerEvent(input))
    /\ ackInner' =
          LET made == into_event_listener(attached[Len(attached)], input)
          IN  IF made # <<>> /\ made[1].method = "received_incoming_message"
              THEN made[1].payload.ack.inner
              ELSE None
    /\ UNCHANGED <<gateVars, transport, readLoop, input, ackResults, responses,
                   decoded,
                   bridgeVars>>

\* The sender returned by the k-th take() is called with a status.  It is a
\* boxed FnOnce, so it is called at most once.  The frame is written while the
\* connection lasts; afterwards send_response fails and nothing is written.
Fire(k, status) ==
    /\ k \in DOMAIN ackResults
    /\ ackResults[k].value # None
    /\ \A i \in DOMAIN wire : wire[i].take # k
    /\ wire' = Append(wire,
                      [take |-> k,
                       sent |-> readLoop = "running",
                       frame |-> send_response(ackResults[k].value[1].responder,
                                               status)])
    /\ UNCHANGED <<conn, lockVars, callVars, streamVars, pendingMutex, pc, taken,
                   result, attached, reqId>>
    /\ UNCHANGED auxVars

NextFire ==
    \/ DeliverAck
    \/ \E t \in Threads :
          (ackInner # None \/ ackResults # <<>>) /\ TakeCall(t)
    \/ \E t \in Threads : AckTake(t)
    \/ \E k \in 1..MaxTakes, status \in {200, 500} : Fire(k, status)
    \/ \E reason \in FinishReasons : ReadLoopFinish(reason)

SpecFire == InitFire /\ [][NextFire]_vars

\* The response frames written for the delivered frame.
FramesSent == {i \in DOMAIN wire : wire[i].sent}

\* C32: for a delivered IncomingMessage, a firing of its ack that is sent
\* writes a response frame with the message's request_id and the status it was
\* fired with, and whatever takes and firings are attempted at most one
\* response frame is ever written for the message; without a firing none is.
C32_AckAtMostOneCorrelatedResponse ==
    /\ Cardinality(FramesSent) <= 1
    /\ Len(wire) <= 1
    /\ \A i \in DOMAIN wire :
          /\ output # None
          /\ output[1].ok
          /\ output[1].event.kind = "IncomingMessage"
          /\ wire[i].frame.id = output[1].event.request_id
          /\ wire[i].frame.status \in {200, 500}
          /\ ackResults[wire[i].take].value = Some(output[1].event.send_ack)

\* Message 42 was acked with status 500 by the first take; a second take got
\* nothing to fire, and one frame, with id 42, was written.
C32_Witness ==
    /\ output # None
    /\ Len(ackResults) >= 2
    /\ ackResults[2].value = None
    /\ Len(wire) = 1
    /\ wire[1].sent
    /\ wire[1].frame = [id |-> 42, status |-> 500]

\* C39: the translator makes an ack sender only for an IncomingMessage: for
\* QueueEmpty and for every frame whose translation fails, the result carries
\* no sender, the listener is given no ack handle, and no response is ever
\* written through the frame's responder.
C39_AckOnlyForIncomingMessage ==
    output # None =>
        LET translated == output[1]
            isMessage == translated.ok /\ translated.event.kind = "IncomingMessage"
        IN  /\ translated.ok =>
                  (("send_ack" \in DOMAIN translated.event) <=> isMessage)
            /\ ~isMessage => /\ ackInner = None
                             /\ ackResults = <<>>
                             /\ wire = <<>>
                             /\ \A i \in DOMAIN callbacks :
                                   "ack" \notin DOMAIN callbacks[i].payload
            /\ isMessage => translated.event.send_ack = MakeSendAck(input.responder)

\* A QueueEmpty frame with id 7 was handed to the listener without an ack, and
\* the connection then ended with nothing written.
C39_Witness ==
    /\ output # None
    /\ output[1].ok
    /\ output[1].event.kind = "QueueEmpty"
    /\ input.responder = Some(7)
    /\ Len(callbacks) = 2
    /\ callbacks[1].method = "received_queue_empty"
    /\ wire = <<>>

\* ----------------------------------------------- the language list of a request
\* C33: a RequestVerificationCode request carries an accept-language header
\* exactly when a language list is supplied, with the supplied value, and the
\* language list is never part of the JSON body, which holds transport and
\* client and nothing else.
C33_LanguageListIsHeaderOnly ==
    (output # None /\ input.kind = "RequestVerificationCode") =>
        /\ HeaderGet(output[1].headers, "accept-language") = input.language_list
        /\ Cardinality({i \in DOMAIN output[1].headers :
                           output[1].headers[i][1] = "accept-language"})
               = (IF input.language_list = None THEN 0 ELSE 1)
        /\ output[1].body # None
        /\ output[1].body[1] =
               Json("object", <<<<"transport", Json("string", input.transport)>>,
                                <<"client", Json("string", input.client)>>>>)

\* A voice request with the language list "tlh" was built with the header
\* accept-language: tlh and a body of two members.
C33_Witness ==
    /\ output # None
    /\ input.kind = "RequestVerificationCode"
    /\ input.transport = "voice"
    /\ input.language_list = Some("tlh")
    /\ HeaderGet(output[1].headers, "accept-language") = Some("tlh")
    /\ RootKeys(output[1].body[1]) = {"transport", "client"}

\* ------------------------------------------- conversions of the bridge layer
\* Variant of from_response: the content-type is compared without regard to
\* case.
from_response_AnyCase(response_headers, response_body, matches) ==
    IF HeaderGet(response_headers, "content-type")
           \notin {Some("application/json"), Some("Application/JSON")}
    THEN None
    ELSE IF response_body.t = "text" \/ ~matches THEN None
    ELSE Some(response_body)

\* VerificationCodeNotDeliverable::from_response and
\* RegistrationLock::from_response, which read alike.  Whether a JSON document
\* fits the type is decided by its Deserialize, given here as matches; a body
\* that is not JSON fits no type.
from_response(response_headers, response_body, matches) ==
    IF HeaderGet(response_headers, CONTENT_TYPE_JSON[1]) # Some(CONTENT_TYPE_JSON[2])
    THEN None
    ELSE IF response_body.t = "text" \/ ~matches THEN None
    ELSE Some(response_body)

\* Variant of HttpStatusTryFrom: only the classes 1xx to 5xx are accepted.
HttpStatusTryFrom_FiveClasses(value) ==
    IF 100 <= value /\ value < 600
    THEN [ok |-> TRUE, status |-> value]
    ELSE [ok |-> FALSE, status |-> 0]

\* TryFrom<u16> for HttpStatus: http::StatusCode::from_u16, which accepts the
\* three-digit values.
HttpStatusTryFrom(value) ==
    IF 100 <= value /\ value < 1000
    THEN [ok |-> TRUE, status |-> value]
    ELSE [ok |-> FALSE, status |-> 0]

\* The values of a u16.
U16 == 0..65535

\* What is given to a conversion: a u16 to HttpStatus::try_from, or the headers
\* and body of an error response to one of the from_response functions.
ConvertInputs ==
    [fn : {"HttpStatus"}, value : U16]
    \cup [fn : {"VerificationCodeNotDeliverable", "RegistrationLock"},
          response_headers :
              SeqsUpTo({<<"content-type", "application/json">>,
                        <<"content-type", "text/plain">>,
                        <<"content-type", "application/json; charset=utf-8">>,
                        <<"content-type", "Application/JSON">>,
                        <<"retry-after", "120">>}, MaxHeaders),
          response_body : {Json("text", ""), Json("text", "not json"),
                           Json("object", <<>>),
                           Json("object", <<<<"reason", Json("string", "x")>>>>)},
          matches : BOOLEAN]

InitConvert ==
    /\ RunningGate
    /\ input \in ConvertInputs
    /\ output = None
    /\ ackInner = <<>>
    /\ ackResults = <<>>
    /\ responses = <<>>
    /\ decoded = <<>>
    /\ BridgeInit

\* HttpStatus::try_from(value), or from_response(headers, body)
Convert ==
    /\ output = None
    /\ output' = Some(IF input.fn = "HttpStatus"
                      THEN HttpStatusTryFrom(input.value)
                      ELSE from_response(input.response_headers, input.response_body,
                                         input.matches))
    /\ UNCHANGED <<gateVars, streamVars, input, ackInner, ackResults, responses,
                   decoded,
                   bridgeVars>>

SpecConvert == InitConvert /\ [][Convert]_vars

FromResponseDone == output # None /\ input.fn # "HttpStatus"

\* C34: the two from_response functions never fail: they return nothing when
\* the content-type header is absent or is not exactly application/json,
\* whatever the body, and when the body does not parse; they return a value
\* only when the content-type is application/json and the body parses.
C34_FromResponseIsOptional ==
    FromResponseDone =>
        LET content_type == HeaderGet(input.response_headers, "content-type")
            parses == input.response_body.t # "text" /\ input.matches
        IN  /\ output[1] \in {None, Some(input.response_body)}
            /\ content_type # Some("application/json") => output[1] = None
            /\ ~parses => output[1] = None
            /\ output[1] # None <=> (content_type = Some("application/json") /\ parses)

\* A body that would parse came with content-type Application/JSON and gave
\* nothing.
C34_Witness ==
    /\ FromResponseDone
    /\ input.fn = "RegistrationLock"
    /\ HeaderGet(input.response_headers, "content-type") = Some("Application/JSON")
    /\ input.response_body.t = "object"
    /\ input.matches
    /\ output[1] = None

HttpStatusDone == output # None /\ input.fn = "HttpStatus"

\* C35 as stated: converting a 16-bit integer to a response status succeeds
\* exactly for the values 100 to 599.
C35_StatusRange100To599 ==
    HttpStatusDone => (output[1].ok <=> (100 <= input.value /\ input.value <= 599))

\* C35, amended: the conversion succeeds exactly for the values 100 to 999,
\* giving the status with that value, and fails for 0 to 99 and for 1000 to
\* 65535.
C35_StatusRange100To999 ==
    HttpStatusDone =>
        /\ output[1].ok <=> (100 <= input.value /\ input.value <= 999)
        /\ output[1].ok => output[1].status = input.value

\* 600 was converted to a status.
C35_Witness ==
    /\ HttpStatusDone
    /\ input.value = 600
    /\ output[1] = [ok |-> TRUE, status |-> 600]

\* ------------------------------------------------------ HttpRequest::add_header
\* Variant of HeaderMapAppend: HeaderMap::insert, which replaces the values the
\* name already has.
HeaderMapInsert(map, name, value) ==
    Append(SelectSeq(map, LAMBDA entry : entry[1] # name), <<name, value>>)

\* HeaderMap::append: one more value for the name, after those it has.
HeaderMapAppend(map, name, value) == Append(map, <<name, value>>)

\* A fresh HttpRequest, shared by the callers.
InitHeaders == RunningGate /\ AuxInit

\* A thread calls add_header(name, value) and reaches self.headers.lock().
AddHeaderCall(t, name, value) ==
    /\ pc[t] = "idle"
    /\ calls < MaxCalls
    /\ calls' = calls + 1
    /\ arg' = [arg EXCEPT ![t] = <<name, value>>]
    /\ pc' = [pc EXCEPT ![t] = "wait_headers"]
    /\ UNCHANGED <<conn, lockVars, pendingMutex, op, taken, result, duringWrite,
                   streamVars, attached, wire, reqId>>
    /\ UNCHANGED auxVars

\* let mut guard = self.headers.lock().expect("not poisoned");
HeadersLock(t) ==
    /\ pc[t] = "wait_headers"
    /\ headersMutex = {}
    /\ headersMutex' = {t}
    /\ pc' = [pc EXCEPT ![t] = "appending"]
    /\ UNCHANGED <<conn, lockVars, pendingMutex, callVars, taken, result,
                   streamVars, attached, wire, reqId>>
    /\ UNCHANGED <<input, output, ackInner, ackResults, responses, decoded,
                   requestHeaders, onDisconnect>>

\* guard.append(name, value); the guard is dropped when add_header returns.
HeaderAppend(t) ==
    /\ pc[t] = "appending"
    /\ requestHeaders' = HeaderMapAppend(requestHeaders, arg[t][1], arg[t][2])
    /\ headersMutex' = headersMutex \ {t}
    /\ pc' = [pc EXCEPT ![t] = "idle"]
    /\ UNCHANGED <<conn, lockVars, pendingMutex, callVars, taken, result,
                   streamVars, attached, wire, reqId>>
    /\ UNCHANGED <<input, output, ackInner, ackResults, responses, decoded,
                   onDisconnect>>

NextHeaders ==
    \/ \E t \in Threads, name \in {"x-a", "x-b"}, value \in {"1", "2"} :
          AddHeaderCall(t, name, value)
    \/ \E t \in Threads : HeadersLock(t)
    \/ \E t \in Threads : HeaderAppend(t)

SpecHeaders == InitHeaders /\ [][NextHeaders]_vars

\* C36: add_header only appends.  The headers change only by one (name,
\* value) entry being added after those present, the entry of a call that
\* returns in that step, also when the name is already present; and with calls
\* running concurrently every call that has returned has its entry in the
\* map: the number of entries is the number of calls that returned.
C36_AddHeaderOnlyAppends ==
    /\ [](Len(requestHeaders)
            = calls - Cardinality({t \in Threads : pc[t] # "idle"}))
    /\ [][/\ requestHeaders' # requestHeaders =>
               \E t \in Threads :
                   /\ pc[t] = "appending" /\ pc'[t] = "idle"
                   /\ requestHeaders' = Append(requestHeaders, arg[t])
          /\ \A t \in Threads :
                 (pc[t] = "appending" /\ pc'[t] = "idle") =>
                     requestHeaders' = Append(requestHeaders, arg[t])]_vars

\* Both threads have added a value for x-a, both values are there, and one of
\* them waits for the mutex the other holds to add a third.
C36_Witness ==
    /\ Len(requestHeaders) = 2
    /\ requestHeaders[1][1] = "x-a"
    /\ requestHeaders[2][1] = "x-a"
    /\ requestHeaders[1][2] # requestHeaders[2][2]
    /\ pc[1] = "appending"
    /\ pc[2] = "wait_headers"
    /\ headersMutex = {1}

\* ------------------------------------------------ disconnect and info as frames
\* C38: disconnect and info never change the gate's phase.  From the moment
\* such a call holds the gate's lock until it has returned, no step changes
\* the gate: a Pending gate is still Pending with the same pending connection,
\* a Running gate is still Running with the same connection and listener, and
\* no listener is attached.
C38_DisconnectInfoKeepPhase ==
    [][\A t \in Threads :
          (/\ op[t] \in {"disconnect", "info"}
           /\ pc[t] \in {"locked", "wait_mutex", "pending_locked", "unlock"})
              => (conn' = conn /\ attached' = attached)]_vars

\* One caller's disconnect has returned from a gate that is still waiting for
\* its listener, its transport now closed, while the other caller's info reads
\* the same pending connection under its mutex.
C38_Witness ==
    /\ conn = WaitingForListener
    /\ attached = <<>>
    /\ transport = "closed"
    /\ op[1] = "disconnect" /\ pc[1] = "unlock" /\ result[1] = "ok"
    /\ op[2] = "info" /\ pc[2] = "pending_locked"

\* --------------------------------------------------- connect_registration_chat
\* Variant of registration_listener: the sender is dropped only when the
\* connection finishes with a local disconnect.
registration_listener_OnlyLocal(state, event) ==
    IF event.type = "Finished"
          /\ event.reason = [ok |-> TRUE, reason |-> "LocalDisconnect"]
    THEN [slot |-> None,
          drops |-> state.drops + (IF state.slot # None THEN 1 ELSE 0)]
    ELSE state

\* let listener = move |event| match event {
\*     ListenerEvent::Finished(_) => drop(on_disconnect.take()),
\*     ListenerEvent::ReceivedAlerts(_) | ListenerEvent::ReceivedMessage(_, _) => (),
\* };
\* take() leaves None in the slot; dropping None drops no sender.
registration_listener(state, event) ==
    IF event.type = "Finished"
    THEN [slot |-> None,
          drops |-> state.drops + (IF state.slot # None THEN 1 ELSE 0)]
    ELSE state

\* ChatConnection::finish_connect(tokio_runtime, pending, Box::new(listener))
InitRegistration == RunningGate /\ AuxInit

\* The closure is called with one more event.
RegistrationEvent(event) ==
    /\ Len(received) < MaxEvents
    /\ received' = Append(received, event)
    /\ onDisconnect' = registration_listener(onDisconnect, event)
    /\ UNCHANGED <<gateVars, transport, readLoop, callbacks>>
    /\ UNCHANGED <<input, output, ackInner, ackResults, responses, decoded,
                   requestHeaders, headersMutex>>

\* Any events in any order, Finished more than once included.
NextRegistration ==
    \E event \in {ReceivedAlerts(alerts) : alerts \in AlertLists}
                 \cup {ReceivedMessage(proto, proto.id) : proto \in ListenerFrames}
                 \cup {Finished(reason) : reason \in FinishReasons} :
        RegistrationEvent(event)

SpecRegistration == InitRegistration /\ [][NextRegistration]_vars

FinishedSeen == \E i \in DOMAIN received : received[i].type = "Finished"

\* C40: the drop_on_disconnect sender is held for as long as only alerts and
\* messages have arrived, and is gone once a Finished event has arrived,
\* whatever its reason; it has been dropped exactly once then, however many
\* Finished events followed the first.
C40_DroppedAtFirstFinished ==
    /\ (onDisconnect.slot # None) <=> ~FinishedSeen
    /\ onDisconnect.drops = (IF FinishedSeen THEN 1 ELSE 0)

\* A message arrived, then two Finished events that are not local
\* disconnects: the sender was dropped once.
C40_Witness ==
    /\ Len(received) = 3
    /\ received[1].type = "ReceivedMessage"
    /\ received[2].type = "Finished"
    /\ received[2].reason.reason = "RemoteDisconnect"
    /\ received[3].type = "Finished"
    /\ ~received[3].reason.ok
    /\ onDisconnect.slot = None
    /\ onDisconnect.drops = 1

\* ------------------------------------------------------------------- progress
\* The gate's calls, a bounded number of them.  Which listener is attached and
\* which error ends the read loop make no difference to the locks, so one
\* listener and the two orderly ends of the read loop stand for all.
NextLive ==
    \/ \E t \in Threads, o \in Ops, l \in {"L1", "none"} :
          calls < MaxRunningCalls /\ Call(t, o, l)
    \/ \E t \in Threads : Grant(t)
    \/ \E t \in Threads : Release(t)
    \/ \E t \in Threads : InitReplace(t)
    \/ \E t \in Threads : InitMatch(t)
    \/ \E t \in Threads : InitFinish(t)
    \/ \E t \in Threads : Send(t)
    \/ \E t \in Threads, outcome \in {"response", "timeout", "terminated"} :
          SendResolve(t, outcome)
    \/ \E t \in Threads : Disconnect(t)
    \/ \E t \in Threads : Info(t)
    \/ \E t \in Threads : LockPending(t)
    \/ \E t \in Threads : PendingOp(t)
    \/ \E reason \in {r \in FinishReasons : r.ok} : ReadLoopFinish(reason)

\* Threads and tasks keep running: a caller that can take its next step takes
\* it, a lock that can be handed to the waiter at the head of its queue is
\* handed over, and the timeout given to send elapses if nothing else ends the
\* wait.  Nothing is assumed about the server or the read loop.
SpecLive ==
    /\ Init
    /\ [][NextLive]_vars
    /\ \A t \in Threads :
          /\ WF_vars(Grant(t))
          /\ WF_vars(Release(t))
          /\ WF_vars(InitReplace(t))
          /\ WF_vars(InitMatch(t))
          /\ WF_vars(InitFinish(t))
          /\ WF_vars(Send(t))
          /\ WF_vars(SendResolve(t, "timeout"))
          /\ WF_vars(Disconnect(t))
          /\ WF_vars(Info(t))
          /\ WF_vars(LockPending(t))
          /\ WF_vars(PendingOp(t))

\* The caller holds the gate's lock, in either mode.
HoldsGate(t) == t \in rwReaders \cup rwWriter

\* C37: no interleaving of init_listener, send, disconnect and info deadlocks.
\* The pending connection's mutex is waited for and held only by a caller that
\* already holds the gate's lock in read mode, nobody waits for the gate's lock
\* while holding the mutex, the caller that holds the write lock neither holds
\* nor waits for the mutex, and every call that has started returns.
C37_NoDeadlock ==
    /\ [](\A t \in Threads :
             /\ (t \in pendingMutex \/ pc[t] = "wait_mutex") => t \in rwReaders
             /\ pc[t] = "wait_lock" => (t \notin pendingMutex /\ ~HoldsGate(t))
             /\ t \in rwWriter =>
                    (t \notin pendingMutex
                       /\ pc[t] \notin {"wait_mutex", "pending_locked"}))
    /\ \A t \in Threads : (pc[t] # "idle") ~> (pc[t] = "idle")

\* One caller holds the pending connection's mutex, the other waits for it,
\* both under the read lock, while the gate is still waiting for its listener.
C37_Witness ==
    /\ conn = WaitingForListener
    /\ pendingMutex = {1}
    /\ pc[1] = "pending_locked"
    /\ pc[2] = "wait_mutex"
    /\ rwReaders = {1, 2}

====
